---- MODULE Spec2Model ----
(***************************************************************************)
(* Model of antMountEval.py: the UBX epoch accumulator                     *)
(* (UbxEpochAccumulator), its feature builder and the collector loop       *)
(* (collectTask) that feeds decoded UBX messages to it.                    *)
(*                                                                         *)
(* Conventions.                                                            *)
(*  - Optional[T] is a sequence of length at most one: None is <<>> and a  *)
(*    present value x is <<x>>.                                            *)
(*  - A float is an exact rational <<n, d>> in lowest terms with d > 0     *)
(*    (IEEE rounding is not modelled).                                     *)
(*  - A decoded message is a record; its repeating block is a sequence of  *)
(*    records (pyubx2's gnssId_01, svId_01, ... attributes).               *)
(***************************************************************************)
EXTENDS Integers, Sequences, FiniteSets, TLC

VARIABLES
    currentItow,   \* Optional[int]            (acc.currentItow)
    satSamples,    \* List[SatSample]          (acc.satSamples)
    sigSamples,    \* List[SigSample]          (acc.sigSamples)
    latestPdop,    \* Optional[float]          (acc.latestPdop)
    latestTdop,    \* Optional[float]          (acc.latestTdop)
    wroteHeader,   \* collectTask's local flag
    rows,          \* rows written to the output CSV, in order
    lastOp,        \* the last call made and what it returned
    satFrom,       \* history: time tag of the message that filled satSamples
    sigFrom,       \* history: time tag of the message that filled sigSamples
    emitted,       \* history: each EpochFeatures emitted, with the tags of its samples
    tagChanges,    \* history: clock messages whose tag differed from the open epoch
    lastTow,       \* history: time of week of the last message read that carries one
    slipFor,       \* history: epochs whose samples a cycle-slip report has marked
    lastDop,       \* history: the last NAV-DOP message the collector has routed
    nMsgs,         \* history: number of messages the collector has read
    eof,           \* the serial stream has ended
    script,        \* the configuration script that is running, "none" if none
    pc,            \* the running script's position (its loop or its State)
    sent,          \* the requests the script has written to the receiver
    received       \* the identities the script has read, None for a timed-out read

vars == <<currentItow, satSamples, sigSamples, latestPdop, latestTdop,
          wroteHeader, rows, lastOp, satFrom, sigFrom, emitted, tagChanges,
          lastTow, slipFor, lastDop, nMsgs, eof, script, pc, sent, received>>

scriptVars == <<script, pc, sent, received>>
accVars == <<currentItow, satSamples, sigSamples, latestPdop, latestTdop>>
collectVars == <<wroteHeader, rows, emitted, tagChanges, satFrom, sigFrom,
                 lastTow, slipFor, lastDop, nMsgs, eof>>

----------------------------------------------------------------------------
(* Bounds of the model *)

MaxTag == 2
MaxSv == 2
MaxMsgs == 3
MaxEpochs == 2
MaxSig == 3
MaxRows == 1
MaxTable == 2

----------------------------------------------------------------------------
(* Optional values and floats *)

None == <<>>
Some(x) == <<x>>

Abs(x) == IF x < 0 THEN -x ELSE x
Max(a, b) == IF a >= b THEN a ELSE b

RECURSIVE GCD(_, _)
GCD(a, b) == IF b = 0 THEN a ELSE GCD(b, a % b)

Rat(n, d) ==
    LET g == GCD(Abs(n), d)
        s == IF n < 0 THEN -1 ELSE 1
    IN  <<s * (Abs(n) \div g), d \div g>>

RatLt(x, y) == x[1] * y[2] < y[1] * x[2]
RatLe(x, y) == x[1] * y[2] <= y[1] * x[2]

Zero == Rat(0, 1)
One == Rat(1, 1)

\* sums are formed over the least common denominator
RatAdd(x, y) ==
    LET g == GCD(x[2], y[2])
    IN  Rat(x[1] * (y[2] \div g) + y[1] * (x[2] \div g), (x[2] \div g) * y[2])
RatSub(x, y) ==
    LET g == GCD(x[2], y[2])
    IN  Rat(x[1] * (y[2] \div g) - y[1] * (x[2] \div g), (x[2] \div g) * y[2])
RatMul(x, y) == Rat(x[1] * y[1], x[2] * y[2])
\* x / y for y # 0
RatDiv(x, y) ==
    IF y[1] > 0 THEN Rat(x[1] * y[2], x[2] * y[1])
    ELSE Rat(-(x[1] * y[2]), x[2] * (-y[1]))

RECURSIVE RatSum(_)
RatSum(s) == IF s = <<>> THEN Zero ELSE RatAdd(Head(s), RatSum(Tail(s)))

\* how a call ends: it returns a value or raises an exception
Returned(x) == [exc |-> None, val |-> Some(x)]
Raised(e) == [exc |-> Some(e), val |-> None]

----------------------------------------------------------------------------
(* Decoded UBX messages: the inputs of the accumulator and the collector *)

Tags == 1..MaxTag

GnssIds == {0}
SvIds == {1, 2}
ElevDegs == {10, 80}
AzimDegs == {0}
SatCnos == {40}
PrResVals == {Some(5)}          \* tenths of a metre; None: no prRes attribute
FreqIds == {0}
SigCnos == {40}
QualityInds == {4}
HalfCycs == {0, 1}
PDopVals == {150, 250}
TDopVals == {90}

SatBlock == [gnssId : GnssIds, svId : SvIds, elev : ElevDegs, azim : AzimDegs,
             cno : SatCnos, prRes : PrResVals]
SigBlock == [gnssId : GnssIds, svId : SvIds, sigId : {0}, freqId : FreqIds,
             cno : SigCnos, qualityInd : QualityInds]
MeasxBlock == [gnssId : GnssIds, svId : SvIds, halfCyc : HalfCycs]

SeqsUpTo(S, n) == UNION {[1..k -> S] : k \in 0..n}

NavSatMsgs == [identity : {"NAV-SAT"}, iTOW : Tags, svs : SeqsUpTo(SatBlock, MaxSv)]
NavSigMsgs == [identity : {"NAV-SIG"}, iTOW : Tags, sigs : SeqsUpTo(SigBlock, MaxSv)]
NavDopMsgs == [identity : {"NAV-DOP"}, iTOW : Tags, pDOP : PDopVals, tDOP : TDopVals]
RxmMeasxMsgs == [identity : {"RXM-MEASX"}, gpsTOW : Tags,
                 svs : SeqsUpTo(MeasxBlock, MaxSv)]
OtherMsgs == [identity : {"ACK-ACK"}]

----------------------------------------------------------------------------
(* Sample records *)

SatSample(b) ==
    [gnssId |-> b.gnssId, svId |-> b.svId, elevDeg |-> b.elev, azimDeg |-> b.azim,
     cn0 |-> b.cno, prRes |-> b.prRes, hasMultipathFlag |-> FALSE]

\* faulty variant: the scan does not stop at the first match (break missing)
FirstSatElev_Last(sats, gnssId, svId) ==
    LET hits == {i \in 1..Len(sats) : sats[i].gnssId = gnssId /\ sats[i].svId = svId}
    IN  IF hits = {} THEN None
        ELSE Some(sats[CHOOSE i \in hits : \A j \in hits : i >= j].elevDeg)

FirstSatElev(sats, gnssId, svId) ==
    LET hits == {i \in 1..Len(sats) : sats[i].gnssId = gnssId /\ sats[i].svId = svId}
    IN  IF hits = {} THEN None
        ELSE Some(sats[CHOOSE i \in hits : \A j \in hits : i <= j].elevDeg)

SigSample(b, sats) ==
    [gnssId |-> b.gnssId, svId |-> b.svId, freqId |-> b.freqId, cn0 |-> b.cno,
     hasLock |-> (b.qualityInd >= 4), hasCycleSlip |-> FALSE,
     elevDeg |-> FirstSatElev(sats, b.gnssId, b.svId), sigId |-> b.sigId]

----------------------------------------------------------------------------
(* FeatureBuilder: UbxEpochAccumulator.buildFeatures *)

Label == "mountA"

RECURSIVE SumSeq(_)
SumSeq(s) == IF s = <<>> THEN 0 ELSE Head(s) + SumSeq(Tail(s))

MapSeq(s, Op(_)) == [i \in 1..Len(s) |-> Op(s[i])]

\* round(1000 * sin(deg)) on the elevations a receiver reports, by symmetry
SinMilliTable ==
    [d \in {0, 10, 20, 30, 40, 45, 50, 60, 70, 80, 90} |->
        CASE d = 0 -> 0 [] d = 10 -> 174 [] d = 20 -> 342 [] d = 30 -> 500
          [] d = 40 -> 643 [] d = 45 -> 707 [] d = 50 -> 766 [] d = 60 -> 866
          [] d = 70 -> 940 [] d = 80 -> 985 [] d = 90 -> 1000]

SinMilli(deg) ==
    IF deg < 0 THEN -SinMilliTable[IF -deg > 90 THEN 180 + deg ELSE -deg]
    ELSE SinMilliTable[IF deg > 90 THEN 180 - deg ELSE deg]

\* floor(sqrt(x)) by bisection on lo..hi
RECURSIVE ISqrtIn(_, _, _)
ISqrtIn(x, lo, hi) ==
    IF lo >= hi THEN lo
    ELSE LET mid == (lo + hi + 1) \div 2
         IN  IF mid * mid <= x THEN ISqrtIn(x, mid, hi) ELSE ISqrtIn(x, lo, mid - 1)

ISqrt(x) == ISqrtIn(x, 0, 46340)

\* faulty variant: dual-band satellites are counted over signal samples
dualBandFracOf_PerSignal(sigs) ==
    LET keys == {<<sigs[i].gnssId, sigs[i].svId>> : i \in 1..Len(sigs)}
        freqs(k) == {sigs[i].freqId : i \in {j \in 1..Len(sigs) :
                                        <<sigs[j].gnssId, sigs[j].svId>> = k}}
        multi == Cardinality({k \in keys : Cardinality(freqs(k)) >= 2})
    IN  IF Len(sigs) = 0 THEN Zero ELSE Rat(multi, Len(sigs))

dualBandFracOf(sigs) ==
    LET keys == {<<sigs[i].gnssId, sigs[i].svId>> : i \in 1..Len(sigs)}
        freqs(k) == {sigs[i].freqId : i \in {j \in 1..Len(sigs) :
                                        <<sigs[j].gnssId, sigs[j].svId>> = k}}
        multi == Cardinality({k \in keys : Cardinality(freqs(k)) >= 2})
    IN  IF Cardinality(keys) = 0 THEN Zero ELSE Rat(multi, Cardinality(keys))

\* faulty variant: slip-free samples are counted over satellites
noSlipFracOf_PerSatellite(sigs) ==
    LET keys == {<<sigs[i].gnssId, sigs[i].svId>> : i \in 1..Len(sigs)}
    IN  IF Len(sigs) = 0 THEN One
        ELSE Rat(Len(SelectSeq(sigs, LAMBDA g : ~g.hasCycleSlip)), Cardinality(keys))

\* faulty variant: no signal sample counts as no lock
noSlipFracOf_EmptyZero(sigs) ==
    IF Len(sigs) = 0 THEN Zero
    ELSE Rat(Len(SelectSeq(sigs, LAMBDA g : ~g.hasCycleSlip)), Len(sigs))

noSlipFracOf(sigs) ==
    IF Len(sigs) = 0 THEN One
    ELSE Rat(Len(SelectSeq(sigs, LAMBDA g : ~g.hasCycleSlip)), Len(sigs))

buildFeatures(a, itow) ==
    LET sats == a.satSamples
        sigs == a.sigSamples
        tracked == SelectSeq(sats, LAMBDA s : s.cn0 > 0)
        numTracked == Len(tracked)
        highElev == SelectSeq(sats, LAMBDA s : s.elevDeg >= 70 /\ s.cn0 > 0)
        num == SumSeq(MapSeq(tracked, LAMBDA s : s.cn0 * SinMilli(s.elevDeg)))
        den == SumSeq(MapSeq(tracked, LAMBDA s : s.cn0))
        prResVals == MapSeq(SelectSeq(sats, LAMBDA s : s.prRes # None),
                            LAMBDA s : Abs(s.prRes[1]))
        hiVals == MapSeq(SelectSeq(sats, LAMBDA s : s.elevDeg >= 45 /\ s.cn0 > 0),
                         LAMBDA s : s.cn0)
        n == Max(1, Len(hiVals))
        \* var = (n * sum(x^2) - sum(x)^2) / n^2, std in thousandths
        varNum == n * SumSeq(MapSeq(hiVals, LAMBDA x : x * x))
                    - SumSeq(hiVals) * SumSeq(hiVals)
    IN  [label |-> Label,
         utcTowMs |-> itow,
         numTracked |-> numTracked,
         meanCn0 |-> Rat(den, Max(1, numTracked)),
         fracAbove70 |-> IF numTracked > 0
                         THEN Rat(Len(highElev), Max(1, numTracked)) ELSE Zero,
         elevWeightedCoverage |-> IF den > 0 THEN Rat(num, 1000 * den) ELSE Zero,
         meanAbsPrRes |-> Rat(SumSeq(prResVals), 10 * Max(1, Len(prResVals))),
         highElevCn0Std |-> Rat(ISqrt(varNum * 1000000), 1000 * n),
         dualBandFrac |-> dualBandFracOf(sigs),
         pdop |-> a.latestPdop,
         tdop |-> a.latestTdop,
         noSlipFrac |-> noSlipFracOf(sigs)]

----------------------------------------------------------------------------
(* UbxEpochAccumulator: each method as a function of the object's fields *)

Acc == [currentItow |-> currentItow, satSamples |-> satSamples,
        sigSamples |-> sigSamples, latestPdop |-> latestPdop,
        latestTdop |-> latestTdop]

AccInit == [currentItow |-> None, satSamples |-> <<>>, sigSamples |-> <<>>,
            latestPdop |-> None, latestTdop |-> None]

\* faulty variant: the incoming time of week is adopted on every snapshot
onNavSat_AlwaysAdopt(a, msg) ==
    [a EXCEPT !.currentItow = Some(msg.iTOW),
              !.satSamples = [i \in 1..Len(msg.svs) |-> SatSample(msg.svs[i])]]

\* faulty variant: the snapshot is appended to the buffer (satSamples.clear() missing)
onNavSat_Merge(a, msg) ==
    [a EXCEPT !.currentItow = IF @ = None THEN Some(msg.iTOW) ELSE @,
              !.satSamples = @ \o [i \in 1..Len(msg.svs) |-> SatSample(msg.svs[i])]]

onNavSat(a, msg) ==
    [a EXCEPT !.currentItow = IF @ = None THEN Some(msg.iTOW) ELSE @,
              !.satSamples = [i \in 1..Len(msg.svs) |-> SatSample(msg.svs[i])]]

\* faulty variant: a DOP value already held is kept
onNavDop_KeepFirst(a, msg) ==
    [a EXCEPT !.latestPdop = IF @ = None THEN Some(Rat(msg.pDOP, 100)) ELSE @,
              !.latestTdop = IF @ = None THEN Some(Rat(msg.tDOP, 100)) ELSE @]

onNavDop(a, msg) ==
    [a EXCEPT !.latestPdop = Some(Rat(msg.pDOP, 100)),
              !.latestTdop = Some(Rat(msg.tDOP, 100))]

onNavSig(a, msg) ==
    [a EXCEPT !.currentItow = IF @ = None THEN Some(msg.iTOW) ELSE @,
              !.sigSamples = [i \in 1..Len(msg.sigs) |->
                                 SigSample(msg.sigs[i], a.satSamples)]]

\* faulty variant: every matching sample is overwritten (break missing)
MeasxEntry_AllMatches(sigs, e) ==
    [i \in 1..Len(sigs) |->
        IF sigs[i].gnssId = e.gnssId /\ sigs[i].svId = e.svId
        THEN [sigs[i] EXCEPT !.hasCycleSlip = (e.halfCyc % 2 = 1)]
        ELSE sigs[i]]

\* one entry of the RXM-MEASX block: the first matching sample is overwritten
MeasxEntry(sigs, e) ==
    LET hits == {i \in 1..Len(sigs) : sigs[i].gnssId = e.gnssId /\ sigs[i].svId = e.svId}
        slip == (e.halfCyc % 2 = 1)
    IN  IF hits = {} THEN sigs
        ELSE LET first == CHOOSE i \in hits : \A j \in hits : i <= j
             IN  [sigs EXCEPT ![first].hasCycleSlip = slip]

RECURSIVE MeasxLoop(_, _)
MeasxLoop(sigs, block) ==
    IF block = <<>> THEN sigs
    ELSE MeasxLoop(MeasxEntry(sigs, Head(block)), Tail(block))

onRxmMeasx(a, msg) ==
    [a EXCEPT !.currentItow = IF @ = None THEN Some(msg.gpsTOW) ELSE @,
              !.sigSamples = MeasxLoop(@, msg.svs)]

\* faulty variant: the buffers are cleared and the tag replaced before the features are built
flushIfEpochChanged_BuildAfterClear(a, incomingItow) ==
    IF a.currentItow = None
    THEN [acc |-> [a EXCEPT !.currentItow = Some(incomingItow)], ret |-> None]
    ELSE IF incomingItow = a.currentItow[1]
    THEN [acc |-> a, ret |-> None]
    ELSE LET b == [a EXCEPT !.currentItow = Some(incomingItow),
                            !.satSamples = <<>>, !.sigSamples = <<>>]
         IN  [acc |-> b, ret |-> Some(buildFeatures(b, incomingItow))]

\* faulty variant: the same-tag early return is missing
flushIfEpochChanged_NoSameTagReturn(a, incomingItow) ==
    IF a.currentItow = None
    THEN [acc |-> [a EXCEPT !.currentItow = Some(incomingItow)], ret |-> None]
    ELSE [acc |-> [a EXCEPT !.currentItow = Some(incomingItow),
                            !.satSamples = <<>>, !.sigSamples = <<>>],
          ret |-> Some(buildFeatures(a, a.currentItow[1]))]

\* faulty variant: the first tag is adopted by flushing an epoch that was never open
flushIfEpochChanged_EmitOnAdopt(a, incomingItow) ==
    IF a.currentItow # None /\ incomingItow = a.currentItow[1]
    THEN [acc |-> a, ret |-> None]
    ELSE [acc |-> [a EXCEPT !.currentItow = Some(incomingItow),
                            !.satSamples = <<>>, !.sigSamples = <<>>],
          ret |-> Some(buildFeatures(a, IF a.currentItow = None THEN incomingItow
                                        ELSE a.currentItow[1]))]

flushIfEpochChanged(a, incomingItow) ==
    IF a.currentItow = None
    THEN [acc |-> [a EXCEPT !.currentItow = Some(incomingItow)], ret |-> None]
    ELSE IF incomingItow = a.currentItow[1]
    THEN [acc |-> a, ret |-> None]
    ELSE [acc |-> [a EXCEPT !.currentItow = Some(incomingItow),
                            !.satSamples = <<>>, !.sigSamples = <<>>],
          ret |-> Some(buildFeatures(a, a.currentItow[1]))]

----------------------------------------------------------------------------
(* The state after construction *)

\* no configuration script is running
NoScript == script = "none" /\ pc = "idle" /\ sent = <<>> /\ received = <<>>

NoOp == [op |-> "init", arg |-> None, flushCalled |-> FALSE, ret |-> None]

Init ==
    /\ currentItow = AccInit.currentItow
    /\ satSamples = AccInit.satSamples
    /\ sigSamples = AccInit.sigSamples
    /\ latestPdop = AccInit.latestPdop
    /\ latestTdop = AccInit.latestTdop
    /\ wroteHeader = FALSE
    /\ rows = <<>>
    /\ lastOp = NoOp
    /\ satFrom = None
    /\ sigFrom = None
    /\ emitted = <<>>
    /\ tagChanges = 0
    /\ lastTow = None
    /\ slipFor = {}
    /\ lastDop = None
    /\ nMsgs = 0
    /\ eof = FALSE
    /\ NoScript

SetAcc(a) ==
    /\ currentItow' = a.currentItow
    /\ satSamples' = a.satSamples
    /\ sigSamples' = a.sigSamples
    /\ latestPdop' = a.latestPdop
    /\ latestTdop' = a.latestTdop

----------------------------------------------------------------------------
(* The accumulator driven call by call (any caller of the class) *)

Called(op, arg, flushCalled, ret) ==
    /\ lastOp' = [op |-> op, arg |-> arg, flushCalled |-> flushCalled, ret |-> ret]
    /\ UNCHANGED scriptVars

CallOnNavSat(msg) ==
    /\ SetAcc(onNavSat(Acc, msg))
    /\ Called("onNavSat", Some(msg), FALSE, None)
    /\ UNCHANGED collectVars

CallOnNavSig(msg) ==
    /\ SetAcc(onNavSig(Acc, msg))
    /\ Called("onNavSig", Some(msg), FALSE, None)
    /\ UNCHANGED collectVars

CallOnNavDop(msg) ==
    /\ SetAcc(onNavDop(Acc, msg))
    /\ Called("onNavDop", Some(msg), FALSE, None)
    /\ UNCHANGED collectVars

CallOnRxmMeasx(msg) ==
    /\ SetAcc(onRxmMeasx(Acc, msg))
    /\ Called("onRxmMeasx", None, FALSE, None)
    /\ UNCHANGED collectVars

CallFlushIfEpochChanged(incomingItow) ==
    \E r \in {flushIfEpochChanged(Acc, incomingItow)} :
        /\ SetAcc(r.acc)
        /\ Called("flushIfEpochChanged", Some(incomingItow), TRUE, r.ret)
        /\ UNCHANGED collectVars

Next ==
    \/ \E msg \in NavSatMsgs : CallOnNavSat(msg)
    \/ \E msg \in NavSigMsgs : CallOnNavSig(msg)
    \/ \E msg \in NavDopMsgs : CallOnNavDop(msg)
    \/ \E msg \in RxmMeasxMsgs : CallOnRxmMeasx(msg)
    \/ \E t \in Tags : CallFlushIfEpochChanged(t)

Spec == Init /\ [][Next]_vars

----------------------------------------------------------------------------
(* collectTask: one iteration of the read loop per decoded message *)

Pow10(k) == IF k = 0 THEN 1 ELSE IF k = 3 THEN 1000 ELSE 1000000

\* quotient and remainder of r * 10^k by d, three decimals at a time
RECURSIVE ScaleDiv(_, _, _)
ScaleDiv(r, d, k) ==
    IF k = 0 THEN <<0, r>>
    ELSE LET s == r * 1000
             rest == ScaleDiv(s % d, d, k - 3)
         IN  <<(s \div d) * Pow10(k - 3) + rest[1], rest[2]>>

\* f"{x:.kf}": x rounded half-even to k decimals, as a count of 10^-k units
Fixed(x, k) ==
    LET n == Abs(x[1])
        d == x[2]
        whole == n \div d
        sd == ScaleDiv(n % d, d, k)
        q == sd[1]
        rem == sd[2]
        up == (2 * rem > d) \/ (2 * rem = d /\ q % 2 = 1)
        mag == whole * Pow10(k) + q + (IF up THEN 1 ELSE 0)
    IN  IF x[1] < 0 THEN -mag ELSE mag

HeaderRow == <<"label", "utcTowMs", "numTracked", "meanCn0", "fracAbove70",
               "elevWeightedCoverage", "meanAbsPrRes", "highElevCn0Std",
               "dualBandFrac", "pdop", "tdop", "noSlipFrac">>

FeatureRow(feat) ==
    [label |-> feat.label,
     utcTowMs |-> feat.utcTowMs,
     numTracked |-> feat.numTracked,
     meanCn0 |-> Fixed(feat.meanCn0, 3),
     fracAbove70 |-> Fixed(feat.fracAbove70, 6),
     elevWeightedCoverage |-> Fixed(feat.elevWeightedCoverage, 6),
     meanAbsPrRes |-> Fixed(feat.meanAbsPrRes, 3),
     highElevCn0Std |-> Fixed(feat.highElevCn0Std, 3),
     dualBandFrac |-> Fixed(feat.dualBandFrac, 6),
     pdop |-> IF feat.pdop # None THEN Some(Fixed(feat.pdop[1], 3)) ELSE None,
     tdop |-> IF feat.tdop # None THEN Some(Fixed(feat.tdop[1], 3)) ELSE None,
     noSlipFrac |-> Fixed(feat.noSlipFrac, 6)]

\* hasattr(msg, "gpsTOW")
HasGpsTOW(msg) == "gpsTOW" \in DOMAIN msg

\* the "Route messages" chain
Route(a, msg) ==
    CASE msg.identity = "NAV-SAT" -> onNavSat(a, msg)
      [] msg.identity = "NAV-SIG" -> onNavSig(a, msg)
      [] msg.identity = "NAV-DOP" -> onNavDop(a, msg)
      [] msg.identity = "RXM-MEASX" -> onRxmMeasx(a, msg)
      [] OTHER -> a

\* the time of week a message carries, for the three kinds the accumulator reads it from
TowOf(msg) ==
    IF msg.identity \in {"NAV-SAT", "NAV-SIG"} THEN Some(msg.iTOW)
    ELSE IF msg.identity = "RXM-MEASX" THEN Some(msg.gpsTOW)
    ELSE None

\* a cycle-slip report names a satellite that has a signal sample in the buffer
SlipHits(sigs, msg) ==
    \E i \in 1..Len(msg.svs) : \E j \in 1..Len(sigs) :
        /\ msg.svs[i].halfCyc % 2 = 1
        /\ sigs[j].gnssId = msg.svs[i].gnssId
        /\ sigs[j].svId = msg.svs[i].svId

\* faulty variant: the epoch clock is read from iTOW as well
IncomingItow_AnyTow(msg) ==
    IF HasGpsTOW(msg) THEN Some(msg.gpsTOW)
    ELSE IF "iTOW" \in DOMAIN msg THEN Some(msg.iTOW) ELSE None

\* incomingItow: set only from a message that has a gpsTOW attribute
IncomingItow(msg) == IF HasGpsTOW(msg) THEN Some(msg.gpsTOW) ELSE None

\* faulty variant: the header is written before every data row
collectTask_HeaderEachRow(msg) ==
    \E fl \in {IF IncomingItow(msg) # None
               THEN flushIfEpochChanged(Acc, IncomingItow(msg)[1])
               ELSE [acc |-> Acc, ret |-> None]} :
      LET incomingItow == IncomingItow(msg)
          flushCalled == incomingItow # None
          feat == fl.ret
          changed == flushCalled /\ currentItow # None /\ incomingItow # currentItow
          sigTag == IF feat # None THEN None ELSE sigFrom
      IN  /\ SetAcc(Route(fl.acc, msg))
          /\ rows' = IF feat = None THEN rows
                     ELSE Append(rows, HeaderRow)
                              \o <<FeatureRow(feat[1])>>
          /\ wroteHeader' = (wroteHeader \/ feat # None)
          /\ Called(msg.identity, incomingItow, flushCalled, feat)
          /\ emitted' = IF feat = None THEN emitted
                        ELSE Append(emitted, [feat |-> feat[1], satFrom |-> satFrom,
                                              sigFrom |-> sigFrom, dop |-> lastDop])
          /\ satFrom' = IF msg.identity = "NAV-SAT"
                        THEN (IF Len(msg.svs) > 0 THEN Some(msg.iTOW) ELSE None)
                        ELSE IF feat # None THEN None ELSE satFrom
          /\ sigFrom' = IF msg.identity = "NAV-SIG"
                        THEN (IF Len(msg.sigs) > 0 THEN Some(msg.iTOW) ELSE None)
                        ELSE sigTag
          /\ tagChanges' = tagChanges + (IF changed THEN 1 ELSE 0)
          /\ lastTow' = IF TowOf(msg) # None THEN TowOf(msg) ELSE lastTow
          /\ slipFor' = IF /\ msg.identity = "RXM-MEASX"
                           /\ sigTag = Some(msg.gpsTOW)
                           /\ SlipHits(fl.acc.sigSamples, msg)
                        THEN slipFor \cup {msg.gpsTOW} ELSE slipFor
          /\ lastDop' = IF msg.identity = "NAV-DOP" THEN Some(msg) ELSE lastDop
          /\ nMsgs' = nMsgs + 1
          /\ eof' = eof

collectTask(msg) ==
    \E fl \in {IF IncomingItow(msg) # None
               THEN flushIfEpochChanged(Acc, IncomingItow(msg)[1])
               ELSE [acc |-> Acc, ret |-> None]} :
      LET incomingItow == IncomingItow(msg)
          flushCalled == incomingItow # None
          feat == fl.ret
          changed == flushCalled /\ currentItow # None /\ incomingItow # currentItow
          sigTag == IF feat # None THEN None ELSE sigFrom
      IN  /\ SetAcc(Route(fl.acc, msg))
          /\ rows' = IF feat = None THEN rows
                     ELSE (IF wroteHeader THEN rows ELSE Append(rows, HeaderRow))
                              \o <<FeatureRow(feat[1])>>
          /\ wroteHeader' = (wroteHeader \/ feat # None)
          /\ Called(msg.identity, incomingItow, flushCalled, feat)
          /\ emitted' = IF feat = None THEN emitted
                        ELSE Append(emitted, [feat |-> feat[1], satFrom |-> satFrom,
                                              sigFrom |-> sigFrom, dop |-> lastDop])
          /\ satFrom' = IF msg.identity = "NAV-SAT"
                        THEN (IF Len(msg.svs) > 0 THEN Some(msg.iTOW) ELSE None)
                        ELSE IF feat # None THEN None ELSE satFrom
          /\ sigFrom' = IF msg.identity = "NAV-SIG"
                        THEN (IF Len(msg.sigs) > 0 THEN Some(msg.iTOW) ELSE None)
                        ELSE sigTag
          /\ tagChanges' = tagChanges + (IF changed THEN 1 ELSE 0)
          /\ lastTow' = IF TowOf(msg) # None THEN TowOf(msg) ELSE lastTow
          /\ slipFor' = IF /\ msg.identity = "RXM-MEASX"
                           /\ sigTag = Some(msg.gpsTOW)
                           /\ SlipHits(fl.acc.sigSamples, msg)
                        THEN slipFor \cup {msg.gpsTOW} ELSE slipFor
          /\ lastDop' = IF msg.identity = "NAV-DOP" THEN Some(msg) ELSE lastDop
          /\ nMsgs' = nMsgs + 1
          /\ eof' = eof

\* the collector fed an arbitrary stream of at most MaxMsgs messages
Collect(msg) == ~eof /\ nMsgs < MaxMsgs /\ collectTask(msg)

\* the stream ends: every later read yields no message and the loop continues
EndOfStream == ~eof /\ eof' = TRUE /\ UNCHANGED <<accVars, lastOp, wroteHeader, rows,
                   emitted, tagChanges, satFrom, sigFrom, lastTow, slipFor, lastDop,
                   nMsgs, scriptVars>>

ReadNothing == eof /\ UNCHANGED vars

CollectNext ==
    \/ \E msg \in NavSatMsgs : Collect(msg)
    \/ \E msg \in NavSigMsgs : Collect(msg)
    \/ \E msg \in NavDopMsgs : Collect(msg)
    \/ \E msg \in RxmMeasxMsgs : Collect(msg)
    \/ \E msg \in OtherMsgs : Collect(msg)
    \/ EndOfStream
    \/ ReadNothing

CollectSpec == Init /\ [][CollectNext]_vars

\* Scenario B of the specification: a satellite snapshot at T1, a signal snapshot
\* at T1 (both populated), then a satellite snapshot at another tag T2
ScenarioBStep ==
    \/ /\ nMsgs = 0
       /\ \E msg \in NavSatMsgs : Len(msg.svs) > 0 /\ collectTask(msg)
    \/ /\ nMsgs = 1
       /\ \E msg \in NavSigMsgs :
            Some(msg.iTOW) = lastTow /\ Len(msg.sigs) > 0 /\ collectTask(msg)
    \/ /\ nMsgs = 2
       /\ \E msg \in NavSatMsgs : Some(msg.iTOW) # lastTow /\ collectTask(msg)

ScenarioBSpec == Init /\ [][ScenarioBStep]_vars

\* the receiver's regular output: every epoch delivers NAV-SAT, NAV-SIG and then
\* RXM-MEASX, all three carrying that epoch's time of week
StreamStep ==
    /\ nMsgs < 3 * MaxEpochs
    /\ LET tag == (nMsgs \div 3) + 1
       IN  \/ /\ nMsgs % 3 = 0
              /\ \E svs \in SeqsUpTo(SatBlock, MaxSv) :
                   collectTask([identity |-> "NAV-SAT", iTOW |-> tag, svs |-> svs])
           \/ /\ nMsgs % 3 = 1
              /\ \E sigs \in SeqsUpTo(SigBlock, MaxSv) :
                   collectTask([identity |-> "NAV-SIG", iTOW |-> tag, sigs |-> sigs])
           \/ /\ nMsgs % 3 = 2
              /\ \E svs \in SeqsUpTo(MeasxBlock, MaxSv) :
                   collectTask([identity |-> "RXM-MEASX", gpsTOW |-> tag, svs |-> svs])

StreamSpec == Init /\ [][StreamStep]_vars

----------------------------------------------------------------------------
(* The accumulator taken with buffers already filled: what onNavSat, onNavSig
   and onRxmMeasx can have left in satSamples and sigSamples *)

\* NAV-SAT entries as a receiver reports them: elevation is signed (a satellite
\* below the horizon), cno is 0 for a satellite that is not tracked, prRes may
\* be missing
BufSatBlock == [gnssId : {0}, svId : {0}, elev : {-10, 10, 80}, azim : {0},
                cno : {0, 40, 45}, prRes : {None, Some(5), Some(15)}]

\* satSamples after onNavSat: one sample per entry, satellite i in slot i
SatBuffers(n) ==
    UNION {{[i \in 1..k |-> SatSample([f[i] EXCEPT !.svId = i])] :
               f \in [1..k -> BufSatBlock]} : k \in 0..n}

BufSigBlock == [gnssId : {0}, svId : {1, 2}, sigId : {0}, freqId : {0, 1},
                cno : {40}, qualityInd : {4}]

\* sigSamples after onNavSig and any number of onRxmMeasx calls
SigBuffers(n) ==
    UNION {{[i \in 1..k |-> [SigSample(f[i], <<>>) EXCEPT !.hasCycleSlip = g[i]]] :
               f \in [1..k -> BufSigBlock], g \in [1..k -> BOOLEAN]} : k \in 0..n}

InitBuffers(satBufs, sigBufs) ==
    /\ currentItow = Some(1)
    /\ satSamples \in satBufs
    /\ sigSamples \in sigBufs
    /\ latestPdop = None
    /\ latestTdop = None
    /\ wroteHeader = FALSE
    /\ rows = <<>>
    /\ lastOp = NoOp
    /\ satFrom = None
    /\ sigFrom = None
    /\ emitted = <<>>
    /\ tagChanges = 0
    /\ lastTow = None
    /\ slipFor = {}
    /\ lastDop = None
    /\ nMsgs = 0
    /\ eof = FALSE
    /\ NoScript

\* onRxmMeasx applied to every buffer of up to MaxSv signal samples
MeasxInit == InitBuffers(SatBuffers(1), SigBuffers(MaxSv))

MeasxNext == \E msg \in RxmMeasxMsgs : CallOnRxmMeasx(msg)

MeasxSpec == MeasxInit /\ [][MeasxNext]_vars

\* buildFeatures applied to every pair of buffers, directly and through a flush
CallBuildFeatures(itow) ==
    /\ Called("buildFeatures", Some(itow), FALSE, Some(buildFeatures(Acc, itow)))
    /\ UNCHANGED <<accVars, collectVars>>

FeatureInit == InitBuffers(SatBuffers(MaxSv), SigBuffers(MaxSig))

FeatureNext ==
    \/ /\ lastOp = NoOp
       /\ CallBuildFeatures(currentItow[1])
    \/ /\ lastOp = NoOp
       /\ \E t \in Tags : CallFlushIfEpochChanged(t)

FeatureSpec == FeatureInit /\ [][FeatureNext]_vars

----------------------------------------------------------------------------
(* Scoring: clamp, mapLinearToScore and scoreFromAggregates *)

ScoreWeights ==
    [satelliteAvailability |-> Rat(10, 10), signalQuality |-> Rat(10, 10),
     multipathResistance |-> Rat(12, 10), dualBandCoverage |-> Rat(8, 10),
     skyView |-> Rat(10, 10), geometryQuality |-> Rat(10, 10),
     lockContinuity |-> Rat(10, 10)]

\* max(lo, min(hi, v)), with Python's choice of the first argument on ties
\* faulty variant: the lower limit is not applied
clamp_NoLower(v, lo, hi) == IF RatLt(v, hi) THEN v ELSE hi

clamp(v, lo, hi) ==
    LET m == IF RatLt(v, hi) THEN v ELSE hi
    IN  IF RatLt(lo, m) THEN m ELSE lo

\* faulty variant: the equal-endpoints guard is missing
mapLinearToScore_NoGuard(v, vLo, vHi, invert) ==
    IF RatSub(vHi, vLo) = Zero THEN Raised("ZeroDivisionError")
    ELSE LET t0 == clamp(RatDiv(RatSub(v, vLo), RatSub(vHi, vLo)), Zero, One)
             t == IF invert THEN RatSub(One, t0) ELSE t0
         IN  Returned(RatAdd(One, RatMul(Rat(9, 1), t)))

\* faulty variant: t is not clamped to [0, 1]
mapLinearToScore_NoClamp(v, vLo, vHi, invert) ==
    IF vHi = vLo THEN Returned(Rat(5, 1))
    ELSE LET t0 == RatDiv(RatSub(v, vLo), RatSub(vHi, vLo))
             t == IF invert THEN RatSub(One, t0) ELSE t0
         IN  Returned(RatAdd(One, RatMul(Rat(9, 1), t)))

mapLinearToScore(v, vLo, vHi, invert) ==
    IF vHi = vLo THEN Returned(Rat(5, 1))
    ELSE LET t0 == clamp(RatDiv(RatSub(v, vLo), RatSub(vHi, vLo)), Zero, One)
             t == IF invert THEN RatSub(One, t0) ELSE t0
         IN  Returned(RatAdd(One, RatMul(Rat(9, 1), t)))

\* faulty variant: an empty cell reads as 0
f_EmptyZero(x, k) == IF x = None THEN Some(Zero) ELSE Some(Rat(x[1], Pow10(k)))

\* f(x): a CSV cell written with k decimals read back as a float, the empty
\* cell as None
f(x, k) == IF x = None THEN None ELSE Some(Rat(x[1], Pow10(k)))

\* the list a field is collected into: the values of the rows of the label
\* whose cell is not empty (the collector leaves only pdop and tdop empty)
\* faulty variant: the rows of every label are aggregated
Column_AllLabels(table, label, field, k, optional) ==
    LET cells == [i \in 1..Len(table) |->
                     IF optional THEN f(table[i][field], k)
                     ELSE f(Some(table[i][field]), k)]
        kept == SelectSeq(cells, LAMBDA c : c # None)
    IN  [i \in 1..Len(kept) |-> kept[i][1]]

Column(table, label, field, k, optional) ==
    LET sel == SelectSeq(table, LAMBDA r : r.label = label)
        cells == [i \in 1..Len(sel) |->
                     IF optional THEN f(sel[i][field], k)
                     ELSE f(Some(sel[i][field]), k)]
        kept == SelectSeq(cells, LAMBDA c : c # None)
    IN  [i \in 1..Len(kept) |-> kept[i][1]]

\* faulty variant: an empty list averages to 0 whatever the field
avg_ZeroDefault(x, default) ==
    IF Len(x) > 0 THEN RatDiv(RatSum(x), Rat(Len(x), 1)) ELSE Zero

avg(x, default) ==
    IF Len(x) > 0 THEN RatDiv(RatSum(x), Rat(Len(x), 1)) ELSE default

\* the ten a... means of scoreFromAggregates
Aggregates(table, label) ==
    [aNumTracked |-> avg(Column(table, label, "numTracked", 0, FALSE), Zero),
     aMeanCn0 |-> avg(Column(table, label, "meanCn0", 3, FALSE), Zero),
     aFracAbove70 |-> avg(Column(table, label, "fracAbove70", 6, FALSE), Zero),
     aElevWeightedCoverage |->
         avg(Column(table, label, "elevWeightedCoverage", 6, FALSE), Zero),
     aMeanAbsPrRes |-> avg(Column(table, label, "meanAbsPrRes", 3, FALSE), Rat(10, 1)),
     aHighElevCn0Std |->
         avg(Column(table, label, "highElevCn0Std", 3, FALSE), Rat(4, 1)),
     aDualBandFrac |-> avg(Column(table, label, "dualBandFrac", 6, FALSE), Zero),
     aPdop |-> avg(Column(table, label, "pdop", 3, TRUE), Rat(3, 1)),
     aTdop |-> avg(Column(table, label, "tdop", 3, TRUE), Rat(2, 1)),
     aNoSlipFrac |-> avg(Column(table, label, "noSlipFrac", 6, FALSE), One)]

sPrRes(aMeanAbsPrRes) ==
    mapLinearToScore(aMeanAbsPrRes, Rat(5, 1), Rat(2, 10), TRUE).val[1]

sFlicker(aHighElevCn0Std) ==
    mapLinearToScore(aHighElevCn0Std, Rat(6, 1), Rat(5, 10), TRUE).val[1]

sPdop(aPdop) == mapLinearToScore(aPdop, Rat(4, 1), Rat(8, 10), TRUE).val[1]

sTdop(aTdop) == mapLinearToScore(aTdop, Rat(3, 1), Rat(6, 10), TRUE).val[1]

scoreFromAggregates(table, label, weights) ==
    LET a == Aggregates(table, label)
        sAvail == mapLinearToScore(a.aNumTracked, Rat(4, 1), Rat(30, 1), FALSE).val[1]
        sCn0 == mapLinearToScore(a.aMeanCn0, Rat(25, 1), Rat(50, 1), FALSE).val[1]
        sMultipath == RatAdd(RatMul(Rat(6, 10), sPrRes(a.aMeanAbsPrRes)),
                             RatMul(Rat(4, 10), sFlicker(a.aHighElevCn0Std)))
        sDual == mapLinearToScore(a.aDualBandFrac, Zero, Rat(8, 10), FALSE).val[1]
        sSkyElev == mapLinearToScore(a.aElevWeightedCoverage,
                                     Rat(25, 100), Rat(80, 100), FALSE).val[1]
        sHighElevPresence ==
            mapLinearToScore(a.aFracAbove70, Zero, Rat(6, 10), FALSE).val[1]
        sSky == RatAdd(RatMul(Rat(6, 10), sSkyElev),
                       RatMul(Rat(4, 10), sHighElevPresence))
        sGeom == RatAdd(RatMul(Rat(6, 10), sPdop(a.aPdop)),
                        RatMul(Rat(4, 10), sTdop(a.aTdop)))
        sLock == mapLinearToScore(a.aNoSlipFrac, Rat(85, 100), Rat(999, 1000),
                                  FALSE).val[1]
        totalWeight ==
            RatSum(<<weights.satelliteAvailability, weights.signalQuality,
                     weights.multipathResistance, weights.dualBandCoverage,
                     weights.skyView, weights.geometryQuality,
                     weights.lockContinuity>>)
        weighted ==
            RatSum(<<RatMul(sAvail, weights.satelliteAvailability),
                     RatMul(sCn0, weights.signalQuality),
                     RatMul(sMultipath, weights.multipathResistance),
                     RatMul(sDual, weights.dualBandCoverage),
                     RatMul(sSky, weights.skyView),
                     RatMul(sGeom, weights.geometryQuality),
                     RatMul(sLock, weights.lockContinuity)>>)
    IN  IF totalWeight = Zero THEN Raised("ZeroDivisionError")
        ELSE Returned([label |-> label,
                       satelliteAvailability |-> sAvail,
                       signalQuality |-> sCn0,
                       multipathResistance |-> sMultipath,
                       dualBandCoverage |-> sDual,
                       skyView |-> sSky,
                       geometryQuality |-> sGeom,
                       lockContinuity |-> sLock,
                       summaryScore |-> RatDiv(weighted, totalWeight)])

\* inputs of mapLinearToScore, in tenths
ScoreValues == {Rat(n, 10) : n \in {-10, 2, 8, 30, 40, 50, 60}}
ScoreEndpoints == {Rat(n, 10) : n \in {2, 8, 40, 50}}

\* feature rows as the collector writes them (FeatureRow), for one mount
ScoreRows ==
    [label : {"X"}, utcTowMs : {1}, numTracked : {30}, meanCn0 : {50000},
     fracAbove70 : {600000}, elevWeightedCoverage : {800000},
     meanAbsPrRes : {200, 1000, 5000},
     highElevCn0Std : {500, 6000},
     dualBandFrac : {800000},
     pdop : {None, Some(800), Some(4000)},
     tdop : {None, Some(600), Some(3000)},
     noSlipFrac : {1000000}]

CallMapLinearToScore(v, vLo, vHi, invert) ==
    /\ Called("mapLinearToScore",
              Some([v |-> v, vLo |-> vLo, vHi |-> vHi, invert |-> invert]),
              FALSE, Some(mapLinearToScore(v, vLo, vHi, invert)))
    /\ UNCHANGED <<accVars, collectVars>>

CallScoreFromAggregates(table, label, weights) ==
    /\ Called("scoreFromAggregates",
              Some([table |-> table, label |-> label, weights |-> weights]),
              FALSE, Some(scoreFromAggregates(table, label, weights)))
    /\ UNCHANGED <<accVars, collectVars>>

ScoreNext ==
    \/ \E v \in ScoreValues, vLo \in ScoreEndpoints, vHi \in ScoreEndpoints,
          invert \in BOOLEAN : CallMapLinearToScore(v, vLo, vHi, invert)
    \/ \E table \in [1..MaxRows -> ScoreRows] :
          CallScoreFromAggregates(table, "X", ScoreWeights)

ScoreSpec == Init /\ [][ScoreNext]_vars

\* weights a caller may pass: the defaults, geometry switched off, multipath
\* alone, and all zero
WeightSets ==
    {ScoreWeights,
     [ScoreWeights EXCEPT !.geometryQuality = Zero],
     [satelliteAvailability |-> Zero, signalQuality |-> Zero,
      multipathResistance |-> Rat(12, 10), dualBandCoverage |-> Zero,
      skyView |-> Zero, geometryQuality |-> Zero, lockContinuity |-> Zero],
     [satelliteAvailability |-> Zero, signalQuality |-> Zero,
      multipathResistance |-> Zero, dualBandCoverage |-> Zero,
      skyView |-> Zero, geometryQuality |-> Zero, lockContinuity |-> Zero]}

\* feature rows of two mounts as the collector writes them: an epoch without
\* DOP, an epoch with both DOP values, an epoch with pdop only
TableRows ==
    {[label |-> l, utcTowMs |-> 1, numTracked |-> 10, meanCn0 |-> 30000,
      fracAbove70 |-> 250000, elevWeightedCoverage |-> 400000,
      meanAbsPrRes |-> 1000, highElevCn0Std |-> 2000, dualBandFrac |-> 500000,
      pdop |-> None, tdop |-> None, noSlipFrac |-> 500000] : l \in {"X", "Y"}}
    \cup
    {[label |-> l, utcTowMs |-> 2, numTracked |-> 20, meanCn0 |-> 40000,
      fracAbove70 |-> 500000, elevWeightedCoverage |-> 600000,
      meanAbsPrRes |-> 3000, highElevCn0Std |-> 1000, dualBandFrac |-> 250000,
      pdop |-> Some(2000), tdop |-> Some(1000), noSlipFrac |-> 1000000] :
         l \in {"X", "Y"}}
    \cup
    {[label |-> l, utcTowMs |-> 3, numTracked |-> 20, meanCn0 |-> 30000,
      fracAbove70 |-> 250000, elevWeightedCoverage |-> 400000,
      meanAbsPrRes |-> 1000, highElevCn0Std |-> 2000, dualBandFrac |-> 500000,
      pdop |-> Some(1000), tdop |-> None, noSlipFrac |-> 500000] : l \in {"X", "Y"}}

Tables == SeqsUpTo(TableRows, MaxTable)

\* scoreFromAggregates called again and again with one weights object, as
\* analyzeFiles does, on any table and label
TableNext ==
    \E table \in Tables, label \in {"X", "Y"}, weights \in WeightSets :
        /\ lastOp.op = "scoreFromAggregates" => weights = lastOp.arg[1].weights
        /\ CallScoreFromAggregates(table, label, weights)

TableSpec == Init /\ [][TableNext]_vars

----------------------------------------------------------------------------
(* Claims *)

\* C1: when an epoch is open and flushIfEpochChanged is called with a tag
\* different from currentItow, it returns the EpochFeatures built from the
\* buffers as they were on entry, tagged with the old currentItow; afterwards
\* currentItow is the incoming tag and both buffers are empty.
C1_FlushClosesOldEpoch ==
    [][\A t \in Tags :
         (/\ lastOp'.op = "flushIfEpochChanged"
          /\ lastOp'.arg = Some(t)
          /\ currentItow # None
          /\ currentItow # Some(t)
          /\ CallFlushIfEpochChanged(t))
         => /\ lastOp'.ret = Some(buildFeatures(Acc, currentItow[1]))
            /\ lastOp'.ret[1].utcTowMs = currentItow[1]
            /\ currentItow' = Some(t)
            /\ satSamples' = <<>>
            /\ sigSamples' = <<>>]_vars

C1_Witness ==
    /\ lastOp.op = "flushIfEpochChanged"
    /\ lastOp.ret # None
    /\ lastOp.ret[1].numTracked > 0
    /\ lastOp.ret[1].noSlipFrac # One
    /\ lastOp.arg = currentItow
    /\ satSamples = <<>>

\* C2: every EpochFeatures record emitted with utcTowMs = T is computed only
\* from satellite and signal samples that arrived in messages whose own time
\* tag is T, whatever the arrival order of the messages.
C2_RecordFromOwnEpoch ==
    \A i \in 1..Len(emitted) :
        /\ emitted[i].satFrom \in {None, Some(emitted[i].feat.utcTowMs)}
        /\ emitted[i].sigFrom \in {None, Some(emitted[i].feat.utcTowMs)}

\* C3: Scenario B: once the satellite snapshot at T2 has arrived, exactly one
\* EpochFeatures has been emitted, tagged T1, both buffers are empty and
\* currentItow is T2.
C3_ScenarioB ==
    nMsgs = 3 =>
        \E T1 \in Tags : \E T2 \in Tags \ {T1} :
            /\ lastTow = Some(T2)
            /\ Len(emitted) = 1
            /\ emitted[1].feat.utcTowMs = T1
            /\ satSamples = <<>>
            /\ sigSamples = <<>>
            /\ currentItow = Some(T2)

\* C4: in a stream where every epoch delivers NAV-SAT, NAV-SIG and then
\* RXM-MEASX, a cycle slip reported for a satellite whose signal sample was
\* ingested in the same epoch shows in that epoch's record: noSlipFrac < 1.
C4_SlipReachesRecord ==
    \A i \in 1..Len(emitted) :
        emitted[i].feat.utcTowMs \in slipFor
            => RatLt(emitted[i].feat.noSlipFrac, One)

C6_TagIsLatest ==
    currentItow # None => currentItow = lastTow

\* C7: flushIfEpochChanged returns none and leaves satSamples, sigSamples,
\* latestPdop and latestTdop unchanged whenever no epoch is open (it then
\* adopts the incoming tag) or the incoming tag equals currentItow; so a second
\* call in a row with the same tag returns none and changes no field.
C7_FlushNoOp ==
    [][\A t \in Tags :
         (lastOp'.op = "flushIfEpochChanged" /\ lastOp'.arg = Some(t)
             /\ CallFlushIfEpochChanged(t))
         => /\ (currentItow = None \/ currentItow = Some(t)) =>
                  /\ lastOp'.ret = None
                  /\ UNCHANGED <<satSamples, sigSamples, latestPdop, latestTdop>>
                  /\ currentItow' = Some(t)
            /\ (lastOp.op = "flushIfEpochChanged" /\ lastOp.arg = Some(t)) =>
                  /\ lastOp'.ret = None
                  /\ UNCHANGED accVars]_vars

C7_Witness ==
    /\ lastOp.op = "flushIfEpochChanged"
    /\ lastOp.ret = None
    /\ lastOp.arg = currentItow
    /\ satSamples # <<>>
    /\ sigSamples # <<>>
    /\ latestPdop # None

\* C8: a record is emitted only by a flush whose incoming tag differs from the
\* open epoch's tag, so the number of emitted records equals the number of such
\* tag changes; once the stream has ended nothing more is emitted or written,
\* whatever is still buffered.
C8_EmitOnlyOnTagChange ==
    [][/\ emitted' # emitted =>
             /\ Len(emitted') = Len(emitted) + 1
             /\ lastOp'.flushCalled
             /\ currentItow # None
             /\ lastOp'.arg # currentItow
       /\ Len(emitted') = tagChanges'
       /\ eof' => (emitted' = emitted /\ rows' = rows)]_vars

C8_Witness ==
    /\ eof
    /\ Len(emitted) = 1
    /\ tagChanges = 1
    /\ satSamples # <<>>
    /\ satFrom = currentItow

\* C9: after onNavSat, satSamples holds exactly the samples of the incoming
\* snapshot, in order, and nothing of its previous content; sigSamples,
\* latestPdop and latestTdop are unchanged, and currentItow changes only if it
\* was unset.
C9_NavSatReplaces ==
    [][lastOp'.op = "onNavSat" =>
         LET msg == lastOp'.arg[1]
         IN  /\ Len(satSamples') = Len(msg.svs)
             /\ \A i \in 1..Len(msg.svs) :
                   /\ satSamples'[i].gnssId = msg.svs[i].gnssId
                   /\ satSamples'[i].svId = msg.svs[i].svId
                   /\ satSamples'[i].elevDeg = msg.svs[i].elev
                   /\ satSamples'[i].azimDeg = msg.svs[i].azim
                   /\ satSamples'[i].cn0 = msg.svs[i].cno
                   /\ satSamples'[i].prRes = msg.svs[i].prRes
             /\ UNCHANGED <<sigSamples, latestPdop, latestTdop>>
             /\ currentItow' = IF currentItow = None THEN Some(msg.iTOW)
                               ELSE currentItow]_vars

\* a signal sample still carries the elevation of a satellite that the
\* snapshot now buffered no longer holds: the earlier content was replaced
C9_Witness ==
    /\ lastOp.op = "onNavSat"
    /\ Len(satSamples) = 1
    /\ currentItow # Some(lastOp.arg[1].iTOW)
    /\ \E i \in 1..Len(sigSamples) :
          /\ sigSamples[i].elevDeg # None
          /\ sigSamples[i].svId # satSamples[1].svId

\* C10: after onNavSig, sigSamples holds exactly the incoming signal samples,
\* each with hasCycleSlip = false and with the elevation of the first buffered
\* satellite sample of the same (gnssId, svId), or unset when there is none.
C10_NavSigAttachesElevation ==
    [][lastOp'.op = "onNavSig" =>
         LET msg == lastOp'.arg[1]
             match(i) == {j \in 1..Len(satSamples) :
                            /\ satSamples[j].gnssId = msg.sigs[i].gnssId
                            /\ satSamples[j].svId = msg.sigs[i].svId}
         IN  /\ Len(sigSamples') = Len(msg.sigs)
             /\ \A i \in 1..Len(msg.sigs) :
                   /\ sigSamples'[i].gnssId = msg.sigs[i].gnssId
                   /\ sigSamples'[i].svId = msg.sigs[i].svId
                   /\ sigSamples'[i].freqId = msg.sigs[i].freqId
                   /\ sigSamples'[i].sigId = msg.sigs[i].sigId
                   /\ sigSamples'[i].cn0 = msg.sigs[i].cno
                   /\ sigSamples'[i].hasCycleSlip = FALSE
                   /\ match(i) = {} => sigSamples'[i].elevDeg = None
                   /\ \A j \in match(i) :
                         (\A k \in match(i) : j <= k)
                             => sigSamples'[i].elevDeg = Some(satSamples[j].elevDeg)]_vars

C10_Witness ==
    /\ lastOp.op = "onNavSig"
    /\ Len(satSamples) = 2
    /\ satSamples[1].svId = satSamples[2].svId
    /\ satSamples[1].elevDeg # satSamples[2].elevDeg
    /\ Len(sigSamples) = 2
    /\ sigSamples[1].elevDeg = Some(satSamples[1].elevDeg)
    /\ sigSamples[2].elevDeg = None

\* C11: for each entry of an RXM-MEASX block, onRxmMeasx overwrites hasCycleSlip
\* on the first buffered signal sample with the entry's (gnssId, svId) and on no
\* other sample (a later entry for the same satellite overwrites an earlier
\* one); an entry without a matching sample changes nothing; the length of
\* sigSamples, every other field of every sample, satSamples and the DOP values
\* stay as they were.
C11_MeasxFirstMatchOnly ==
    [][\A msg \in RxmMeasxMsgs :
         (lastOp'.op = "onRxmMeasx" /\ CallOnRxmMeasx(msg)) =>
            LET sameSv(j, k) == /\ sigSamples[j].gnssId = sigSamples[k].gnssId
                                /\ sigSamples[j].svId = sigSamples[k].svId
                isFirst(j) == \A k \in 1..(j - 1) : ~sameSv(j, k)
                entries(j) == {i \in 1..Len(msg.svs) :
                                  /\ msg.svs[i].gnssId = sigSamples[j].gnssId
                                  /\ msg.svs[i].svId = sigSamples[j].svId}
                last(j) == CHOOSE i \in entries(j) : \A k \in entries(j) : k <= i
            IN  /\ Len(sigSamples') = Len(sigSamples)
                /\ \A j \in 1..Len(sigSamples) :
                      /\ [sigSamples'[j] EXCEPT !.hasCycleSlip = FALSE]
                            = [sigSamples[j] EXCEPT !.hasCycleSlip = FALSE]
                      /\ (isFirst(j) /\ entries(j) # {}) =>
                            sigSamples'[j].hasCycleSlip
                                = (msg.svs[last(j)].halfCyc % 2 = 1)
                      /\ (~isFirst(j) \/ entries(j) = {}) =>
                            sigSamples'[j] = sigSamples[j]
                /\ UNCHANGED <<satSamples, latestPdop, latestTdop>>]_vars

\* two samples of one satellite are buffered and only the first carries the slip
C11_Witness ==
    /\ lastOp.op = "onRxmMeasx"
    /\ Len(sigSamples) = 2
    /\ sigSamples[1].svId = sigSamples[2].svId
    /\ sigSamples[1].hasCycleSlip
    /\ ~sigSamples[2].hasCycleSlip
    /\ satSamples # <<>>

\* C12: latestPdop and latestTdop always hold the values of the most recent
\* NAV-DOP message (scaled by 0.01), a flush does not clear them, and every
\* emitted record carries as pdop and tdop the values of the most recent
\* NAV-DOP message processed before its flush, unset exactly when there was
\* none.
C12_DopIsLatestUpdate ==
    LET pdopOf(d) == IF d = None THEN None ELSE Some(Rat(d[1].pDOP, 100))
        tdopOf(d) == IF d = None THEN None ELSE Some(Rat(d[1].tDOP, 100))
    IN  /\ latestPdop = pdopOf(lastDop)
        /\ latestTdop = tdopOf(lastDop)
        /\ \A i \in 1..Len(emitted) :
              /\ emitted[i].feat.pdop = pdopOf(emitted[i].dop)
              /\ emitted[i].feat.tdop = tdopOf(emitted[i].dop)
              /\ (emitted[i].feat.pdop = None) = (emitted[i].dop = None)

\* a record was emitted with the DOP of an update that came before its epoch
\* was opened, and the flush left the values in place
C12_Witness ==
    /\ Len(emitted) = 1
    /\ emitted[1].feat.pdop = Some(Rat(250, 100))
    /\ emitted[1].feat.tdop = Some(Rat(90, 100))
    /\ latestPdop = emitted[1].feat.pdop
    /\ satSamples = <<>>

\* C13: in scoreFromAggregates lower is better for the residual, the flicker
\* and the DOP metrics: the residual sub-score is 1 at a mean |residual| of 5 m
\* and 10 at 0.2 m, multipathResistance does not increase when the mean
\* residual and the high-elevation C/N0 std do not decrease, and
\* geometryQuality does not increase when mean PDOP and mean TDOP do not
\* decrease.
C13_LowerIsBetter ==
    [][lastOp'.op = "scoreFromAggregates" =>
         LET new == Aggregates(lastOp'.arg[1].table, lastOp'.arg[1].label)
             out == lastOp'.ret[1].val[1]
         IN  /\ new.aMeanAbsPrRes = Rat(5, 1) => sPrRes(new.aMeanAbsPrRes) = One
             /\ new.aMeanAbsPrRes = Rat(2, 10)
                    => sPrRes(new.aMeanAbsPrRes) = Rat(10, 1)
             /\ lastOp.op = "scoreFromAggregates" =>
                   LET old == Aggregates(lastOp.arg[1].table, lastOp.arg[1].label)
                       was == lastOp.ret[1].val[1]
                   IN  /\ (/\ RatLe(old.aMeanAbsPrRes, new.aMeanAbsPrRes)
                            /\ RatLe(old.aHighElevCn0Std, new.aHighElevCn0Std))
                          => RatLe(out.multipathResistance, was.multipathResistance)
                       /\ (/\ RatLe(old.aPdop, new.aPdop)
                            /\ RatLe(old.aTdop, new.aTdop))
                          => RatLe(out.geometryQuality, was.geometryQuality)]_vars

\* C14: mapLinearToScore is non-decreasing in its value argument when invert
\* is false and non-increasing when invert is true, for every pair of endpoints
\* lo # hi, the pairs with lo > hi included.
C14_Monotonic ==
    [][(/\ lastOp.op = "mapLinearToScore"
        /\ lastOp'.op = "mapLinearToScore"
        /\ lastOp'.arg[1].vLo = lastOp.arg[1].vLo
        /\ lastOp'.arg[1].vHi = lastOp.arg[1].vHi
        /\ lastOp'.arg[1].invert = lastOp.arg[1].invert
        /\ lastOp.arg[1].vLo # lastOp.arg[1].vHi
        /\ RatLe(lastOp.arg[1].v, lastOp'.arg[1].v))
       => IF lastOp.arg[1].invert
          THEN RatLe(lastOp'.ret[1].val[1], lastOp.ret[1].val[1])
          ELSE RatLe(lastOp.ret[1].val[1], lastOp'.ret[1].val[1])]_vars

\* C15 as stated: mapLinearToScore returns a value in [1, 10] for every value,
\* every pair of endpoints and either invert setting, and the value is 1 or 10
\* whenever the argument lies outside the endpoint interval.
C15_SaturatesForEveryPair ==
    lastOp.op = "mapLinearToScore" =>
        LET a == lastOp.arg[1]
            r == lastOp.ret[1]
            outside == \/ (RatLt(a.v, a.vLo) /\ RatLt(a.v, a.vHi))
                       \/ (RatLt(a.vLo, a.v) /\ RatLt(a.vHi, a.v))
        IN  /\ r.exc = None
            /\ RatLe(One, r.val[1])
            /\ RatLe(r.val[1], Rat(10, 1))
            /\ outside => r.val[1] \in {One, Rat(10, 1)}

\* C15, amended: mapLinearToScore returns a value in [1, 10] for every value,
\* every pair of endpoints and either invert setting; for endpoints lo # hi the
\* value is 1 or 10 whenever the argument lies outside the endpoint interval
\* (with lo = hi it is 5 for every argument).
C15_InRangeAndSaturates ==
    lastOp.op = "mapLinearToScore" =>
        LET a == lastOp.arg[1]
            r == lastOp.ret[1]
            outside == \/ (RatLt(a.v, a.vLo) /\ RatLt(a.v, a.vHi))
                       \/ (RatLt(a.vLo, a.v) /\ RatLt(a.vHi, a.v))
        IN  /\ r.exc = None
            /\ RatLe(One, r.val[1])
            /\ RatLe(r.val[1], Rat(10, 1))
            /\ (outside /\ a.vLo # a.vHi) => r.val[1] \in {One, Rat(10, 1)}
            /\ a.vLo = a.vHi => r.val[1] = Rat(5, 1)

\* an argument below both endpoints is mapped to a bound of the range
C15_Witness ==
    /\ lastOp.op = "mapLinearToScore"
    /\ lastOp.arg[1].v = Rat(-1, 1)
    /\ lastOp.arg[1].vLo = Rat(2, 10)
    /\ lastOp.arg[1].vHi = Rat(5, 1)
    /\ ~lastOp.arg[1].invert
    /\ lastOp.ret[1].val = Some(One)

\* C16: with equal endpoints mapLinearToScore returns exactly 5.0 for every
\* value and either invert setting, and no division is attempted (no
\* ZeroDivisionError).
C16_EqualEndpointsGiveFive ==
    (lastOp.op = "mapLinearToScore" /\ lastOp.arg[1].vLo = lastOp.arg[1].vHi)
        => lastOp.ret[1] = Returned(Rat(5, 1))

C16_Witness ==
    /\ lastOp.op = "mapLinearToScore"
    /\ lastOp.arg[1].vLo = lastOp.arg[1].vHi
    /\ lastOp.arg[1].v # lastOp.arg[1].vLo
    /\ lastOp.arg[1].invert
    /\ lastOp.ret[1].exc = None
    /\ lastOp.ret[1].val = Some(Rat(5, 1))

\* C17: for every pair of buffers, buildFeatures yields numTracked equal to the
\* number of satellite samples with cn0 > 0, and fracAbove70, dualBandFrac and
\* noSlipFrac each in [0, 1].
C17_CountsAndFractions ==
    lastOp.op = "buildFeatures" =>
        LET feat == lastOp.ret[1]
            unit(x) == RatLe(Zero, x) /\ RatLe(x, One)
        IN  /\ feat.numTracked
                  = Cardinality({i \in 1..Len(satSamples) : satSamples[i].cn0 > 0})
            /\ unit(feat.fracAbove70)
            /\ unit(feat.dualBandFrac)
            /\ unit(feat.noSlipFrac)

\* one of two satellites is tracked, one of two satellites is dual-band and
\* some but not all signal samples carry a slip
C17_Witness ==
    /\ lastOp.op = "buildFeatures"
    /\ Len(satSamples) = 2
    /\ lastOp.ret[1].numTracked = 1
    /\ lastOp.ret[1].fracAbove70 = One
    /\ lastOp.ret[1].dualBandFrac = Rat(1, 2)
    /\ lastOp.ret[1].noSlipFrac = Rat(1, 3)

\* C18: the elevWeightedCoverage of every record lies in [0, 1], whatever
\* elevation the buffered satellite samples carry.
C18_CoverageInUnitInterval ==
    (lastOp.op \in {"buildFeatures", "flushIfEpochChanged"} /\ lastOp.ret # None)
        => /\ RatLe(Zero, lastOp.ret[1].elevWeightedCoverage)
           /\ RatLe(lastOp.ret[1].elevWeightedCoverage, One)

\* C19: buildFeatures returns the neutral defaults on missing data: with no
\* tracked satellite numTracked, meanCn0, fracAbove70, elevWeightedCoverage and
\* highElevCn0Std are 0; with no finite residual meanAbsPrRes is 0; with no
\* signal sample dualBandFrac is 0 and noSlipFrac is 1; and a flush that closes
\* an epoch whose buffers are empty still returns a record, with all of these
\* defaults.
C19_NeutralDefaults ==
    [][(lastOp'.op \in {"buildFeatures", "flushIfEpochChanged"}
          /\ (lastOp'.op = "flushIfEpochChanged" => lastOp'.arg # currentItow))
       => /\ lastOp'.ret # None
          /\ LET feat == lastOp'.ret[1]
             IN  /\ (\A i \in 1..Len(satSamples) : satSamples[i].cn0 = 0) =>
                       /\ feat.numTracked = 0
                       /\ feat.meanCn0 = Zero
                       /\ feat.fracAbove70 = Zero
                       /\ feat.elevWeightedCoverage = Zero
                       /\ feat.highElevCn0Std = Zero
                 /\ (\A i \in 1..Len(satSamples) : satSamples[i].prRes = None) =>
                       feat.meanAbsPrRes = Zero
                 /\ sigSamples = <<>> =>
                       /\ feat.dualBandFrac = Zero
                       /\ feat.noSlipFrac = One]_vars

\* a flush closed an epoch with nothing buffered and returned the defaults
C19_Witness ==
    /\ lastOp.op = "flushIfEpochChanged"
    /\ lastOp.ret # None
    /\ lastOp.ret[1].numTracked = 0
    /\ lastOp.ret[1].meanCn0 = Zero
    /\ lastOp.ret[1].meanAbsPrRes = Zero
    /\ lastOp.ret[1].dualBandFrac = Zero
    /\ lastOp.ret[1].noSlipFrac = One
    /\ lastOp.ret[1].utcTowMs = 1
    /\ currentItow = Some(2)

\* Scenario A of the specification: satellites (0,1,elev 80,cn0 40,prRes 0.5)
\* and (0,2,elev 10,cn0 45,prRes 1.5); signal samples (0,1,freq 0), (0,1,freq 1)
\* and (0,2,freq 0), exactly one of satellite 1's with hasCycleSlip
ScenarioA ==
    /\ Len(satSamples) = 2
    /\ satSamples[1].svId = 1 /\ satSamples[1].elevDeg = 80
    /\ satSamples[1].cn0 = 40 /\ satSamples[1].prRes = Some(5)
    /\ satSamples[2].svId = 2 /\ satSamples[2].elevDeg = 10
    /\ satSamples[2].cn0 = 45 /\ satSamples[2].prRes = Some(15)
    /\ Len(sigSamples) = 3
    /\ {<<sigSamples[i].svId, sigSamples[i].freqId>> : i \in 1..3}
          = {<<1, 0>>, <<1, 1>>, <<2, 0>>}
    /\ Cardinality({i \in 1..3 : sigSamples[i].hasCycleSlip}) = 1
    /\ \A i \in 1..3 : sigSamples[i].hasCycleSlip => sigSamples[i].svId = 1

\* the features of Scenario A other than noSlipFrac
ScenarioAFeatures(feat) ==
    /\ feat.numTracked = 2
    /\ feat.meanCn0 = Rat(425, 10)
    /\ feat.fracAbove70 = Rat(1, 2)
    /\ RatLe(Rat(554, 1000), feat.elevWeightedCoverage)
    /\ RatLe(feat.elevWeightedCoverage, Rat(556, 1000))
    /\ feat.meanAbsPrRes = One
    /\ feat.highElevCn0Std = Zero
    /\ feat.dualBandFrac = Rat(1, 2)

\* C20 as stated: in Scenario A buildFeatures returns numTracked 2, meanCn0
\* 42.5, fracAbove70 0.5, elevWeightedCoverage ~ 0.555, meanAbsPrRes 1.0,
\* highElevCn0Std 0.0, dualBandFrac 0.5 and noSlipFrac 0.75.
C20_ScenarioA_AsStated ==
    (lastOp.op = "buildFeatures" /\ ScenarioA) =>
        /\ ScenarioAFeatures(lastOp.ret[1])
        /\ lastOp.ret[1].noSlipFrac = Rat(75, 100)

\* C20, amended: in Scenario A buildFeatures returns numTracked 2, meanCn0 42.5,
\* fracAbove70 0.5, elevWeightedCoverage ~ 0.555, meanAbsPrRes 1.0,
\* highElevCn0Std 0.0, dualBandFrac 0.5 and noSlipFrac 2/3 (two of the three
\* signal samples are free of a slip).
C20_ScenarioA ==
    (lastOp.op = "buildFeatures" /\ ScenarioA) =>
        /\ ScenarioAFeatures(lastOp.ret[1])
        /\ lastOp.ret[1].noSlipFrac = Rat(2, 3)

C20_Witness ==
    /\ lastOp.op = "buildFeatures"
    /\ ScenarioA
    /\ sigSamples[2].hasCycleSlip
    /\ lastOp.ret[1].noSlipFrac = Rat(2, 3)
    /\ lastOp.ret[1].dualBandFrac = Rat(1, 2)

\* the seven component scores of a Scores record and the seven weights, in
\* the order of the summary's terms
Components(sc) ==
    <<sc.satelliteAvailability, sc.signalQuality, sc.multipathResistance,
      sc.dualBandCoverage, sc.skyView, sc.geometryQuality, sc.lockContinuity>>

WeightList(w) ==
    <<w.satelliteAvailability, w.signalQuality, w.multipathResistance,
      w.dualBandCoverage, w.skyView, w.geometryQuality, w.lockContinuity>>

NonNegativeSomePositive(w) ==
    /\ \A i \in 1..7 : RatLe(Zero, WeightList(w)[i])
    /\ \E i \in 1..7 : RatLt(Zero, WeightList(w)[i])

IsScoreCall(call) ==
    /\ call.op = "scoreFromAggregates"
    /\ NonNegativeSomePositive(call.arg[1].weights)

WeightedMeanOf(call) ==
    LET ws == WeightList(call.arg[1].weights)
        cs == Components(call.ret[1].val[1])
    IN  RatDiv(RatSum([i \in 1..7 |-> RatMul(cs[i], ws[i])]), RatSum(ws))

\* C21: with non-negative weights of which one is positive,
\* scoreFromAggregates returns without an error, each of the seven component
\* scores lies in [1,10], summaryScore is the sum of weight*component over the
\* sum of the weights and lies in [1,10], and two calls whose components
\* differ only where the weight is 0 give the same summaryScore.
C21_WeightedMean ==
    [][IsScoreCall(lastOp') =>
          /\ lastOp'.ret[1].exc = None
          /\ \A i \in 1..7 :
                /\ RatLe(One, Components(lastOp'.ret[1].val[1])[i])
                /\ RatLe(Components(lastOp'.ret[1].val[1])[i], Rat(10, 1))
          /\ lastOp'.ret[1].val[1].summaryScore = WeightedMeanOf(lastOp')
          /\ RatLe(One, lastOp'.ret[1].val[1].summaryScore)
          /\ RatLe(lastOp'.ret[1].val[1].summaryScore, Rat(10, 1))
          /\ (/\ IsScoreCall(lastOp)
              /\ lastOp.arg[1].weights = lastOp'.arg[1].weights
              /\ \A i \in 1..7 :
                    WeightList(lastOp.arg[1].weights)[i] # Zero =>
                       Components(lastOp.ret[1].val[1])[i]
                          = Components(lastOp'.ret[1].val[1])[i])
             => lastOp'.ret[1].val[1].summaryScore
                   = lastOp.ret[1].val[1].summaryScore]_vars

\* a call with geometry weighted 0 returned a summary although the geometry
\* component is below its ceiling and another component is above its floor
C21_Witness ==
    /\ IsScoreCall(lastOp)
    /\ lastOp.arg[1].weights.geometryQuality = Zero
    /\ lastOp.arg[1].weights.signalQuality # Zero
    /\ lastOp.ret[1].exc = None
    /\ lastOp.ret[1].val[1].geometryQuality # Rat(10, 1)
    /\ lastOp.ret[1].val[1].signalQuality # One
    /\ lastOp.ret[1].val[1].summaryScore = WeightedMeanOf(lastOp)

\* the rows of the table that carry the label and a value in the field
Supplying(table, label, field, optional) ==
    {i \in 1..Len(table) :
        /\ table[i].label = label
        /\ optional => table[i][field] # None}

RECURSIVE CellTotal(_, _, _, _)
CellTotal(table, idx, field, optional) ==
    IF idx = {} THEN 0
    ELSE LET i == CHOOSE j \in idx : TRUE
             cell == IF optional THEN table[i][field][1] ELSE table[i][field]
         IN  cell + CellTotal(table, idx \ {i}, field, optional)

\* arithmetic mean of a field written with k decimals over the supplying
\* rows, the fallback when there is none
MeanOrFallback(table, label, field, k, optional, fallback) ==
    LET idx == Supplying(table, label, field, optional)
    IN  IF idx = {} THEN fallback
        ELSE Rat(CellTotal(table, idx, field, optional), Pow10(k) * Cardinality(idx))

\* C22: each of the ten numeric fields is aggregated as the arithmetic mean
\* over the rows of the requested label with a non-empty value in that field,
\* and as the fixed fallback (meanAbsPrRes 10, highElevCn0Std 4, pdop 3,
\* tdop 2, noSlipFrac 1, the others 0) when there is no such row;
\* satelliteAvailability is 1 + 9*clamp((mean numTracked - 4)/26, 0, 1), so
\* two rows with numTracked 10 and 20 give mean 15 and 125/26 ~ 4.81.
C22_MeansAndFallbacks ==
    lastOp.op = "scoreFromAggregates" =>
       LET table == lastOp.arg[1].table
           label == lastOp.arg[1].label
           a == Aggregates(table, label)
           mine == SelectSeq(table, LAMBDA r : r.label = label)
       IN  /\ a.aNumTracked = MeanOrFallback(table, label, "numTracked", 0, FALSE, Zero)
           /\ a.aMeanCn0 = MeanOrFallback(table, label, "meanCn0", 3, FALSE, Zero)
           /\ a.aFracAbove70
                 = MeanOrFallback(table, label, "fracAbove70", 6, FALSE, Zero)
           /\ a.aElevWeightedCoverage
                 = MeanOrFallback(table, label, "elevWeightedCoverage", 6, FALSE, Zero)
           /\ a.aMeanAbsPrRes
                 = MeanOrFallback(table, label, "meanAbsPrRes", 3, FALSE, Rat(10, 1))
           /\ a.aHighElevCn0Std
                 = MeanOrFallback(table, label, "highElevCn0Std", 3, FALSE, Rat(4, 1))
           /\ a.aDualBandFrac
                 = MeanOrFallback(table, label, "dualBandFrac", 6, FALSE, Zero)
           /\ a.aPdop = MeanOrFallback(table, label, "pdop", 3, TRUE, Rat(3, 1))
           /\ a.aTdop = MeanOrFallback(table, label, "tdop", 3, TRUE, Rat(2, 1))
           /\ a.aNoSlipFrac = MeanOrFallback(table, label, "noSlipFrac", 6, FALSE, One)
           /\ lastOp.ret[1].exc = None =>
                 /\ lastOp.ret[1].val[1].satelliteAvailability
                       = RatAdd(One, RatMul(Rat(9, 1),
                            clamp(RatDiv(RatSub(a.aNumTracked, Rat(4, 1)), Rat(26, 1)),
                                  Zero, One)))
                 /\ (Len(mine) = 2 /\ mine[1].numTracked = 10 /\ mine[2].numTracked = 20)
                       => /\ a.aNumTracked = Rat(15, 1)
                          /\ lastOp.ret[1].val[1].satelliteAvailability = Rat(125, 26)

\* Scenario C with a DOP column supplied by one of the two rows only
C22_Witness ==
    /\ lastOp.op = "scoreFromAggregates"
    /\ lastOp.arg[1].label = "X"
    /\ Len(lastOp.arg[1].table) = 2
    /\ lastOp.arg[1].table[1].label = "X"
    /\ lastOp.arg[1].table[1].numTracked = 10
    /\ lastOp.arg[1].table[1].pdop = None
    /\ lastOp.arg[1].table[2].label = "X"
    /\ lastOp.arg[1].table[2].numTracked = 20
    /\ lastOp.arg[1].table[2].pdop = Some(2000)
    /\ Aggregates(lastOp.arg[1].table, "X").aPdop = Rat(2, 1)
    /\ Aggregates(lastOp.arg[1].table, "X").aMeanCn0 = Rat(35, 1)
    /\ Aggregates(lastOp.arg[1].table, "X").aTdop = One
    /\ lastOp.ret[1].exc = None
    /\ lastOp.ret[1].val[1].satelliteAvailability = Rat(125, 26)

\* the fallbacks are in use: no row of the table carries the label
C22_WitnessFallback ==
    /\ lastOp.op = "scoreFromAggregates"
    /\ lastOp.arg[1].table # <<>>
    /\ \A i \in 1..Len(lastOp.arg[1].table) :
          lastOp.arg[1].table[i].label # lastOp.arg[1].label
    /\ Aggregates(lastOp.arg[1].table, lastOp.arg[1].label).aMeanAbsPrRes = Rat(10, 1)

RowsOf(table, label) == SelectSeq(table, LAMBDA r : r.label = label)

\* C23: the Scores of a label depend only on the rows carrying that label:
\* two calls for the same label with the same weights, on tables that differ
\* only by added, removed, changed or moved rows of other labels, return the
\* same seven component scores and summaryScore, and a call changes nothing
\* of the row table.
C23_OnlyOwnRows ==
    [][(/\ lastOp.op = "scoreFromAggregates"
        /\ lastOp'.op = "scoreFromAggregates"
        /\ lastOp'.arg[1].label = lastOp.arg[1].label
        /\ lastOp'.arg[1].weights = lastOp.arg[1].weights
        /\ RowsOf(lastOp'.arg[1].table, lastOp'.arg[1].label)
              = RowsOf(lastOp.arg[1].table, lastOp.arg[1].label))
       => /\ lastOp'.ret = lastOp.ret
          /\ rows' = rows]_vars

\* a mount was scored from a table that also holds a row of another mount,
\* placed before its own row
C23_Witness ==
    /\ lastOp.op = "scoreFromAggregates"
    /\ lastOp.arg[1].label = "X"
    /\ Len(lastOp.arg[1].table) = 2
    /\ lastOp.arg[1].table[1].label = "Y"
    /\ lastOp.arg[1].table[2].label = "X"
    /\ lastOp.arg[1].table[1].numTracked # lastOp.arg[1].table[2].numTracked
    /\ lastOp.ret[1].exc = None
    /\ lastOp.ret[1].val[1].label = "X"

\* the accumulator at the moment an epoch is closed: any two buffers and the
\* DOP values either never received or set by one NAV-DOP message
RowInit ==
    /\ currentItow = Some(1)
    /\ satSamples \in SatBuffers(MaxSv)
    /\ sigSamples \in SigBuffers(MaxSv)
    /\ \E a \in {AccInit} \cup {onNavDop(AccInit, m) : m \in NavDopMsgs} :
          /\ latestPdop = a.latestPdop
          /\ latestTdop = a.latestTdop
    /\ wroteHeader = FALSE
    /\ rows = <<>>
    /\ lastOp = NoOp
    /\ satFrom = None
    /\ sigFrom = None
    /\ emitted = <<>>
    /\ tagChanges = 0
    /\ lastTow = None
    /\ slipFor = {}
    /\ lastDop = None
    /\ nMsgs = 0
    /\ eof = FALSE
    /\ NoScript

\* one iteration of the collector's loop on a message carrying the next tag:
\* the record of the closed epoch is written as a row
RowNext ==
    /\ nMsgs = 0
    /\ collectTask([identity |-> "RXM-MEASX", gpsTOW |-> 2, svs |-> <<>>])

RowSpec == RowInit /\ [][RowNext]_vars

\* x and y differ by at most half a unit of the k-th decimal
WithinHalfUnit(x, y, k) ==
    /\ RatLe(RatSub(x, y), Rat(1, 2 * Pow10(k)))
    /\ RatLe(RatSub(y, x), Rat(1, 2 * Pow10(k)))

\* C24: round trip. A record written as a row by the collector (3 decimals
\* for meanCn0, meanAbsPrRes, highElevCn0Std, pdop, tdop; 6 decimals for the
\* four fractions; an empty cell for an unset pdop or tdop) and read back
\* cell by cell as scoreFromAggregates reads it gives numTracked exactly,
\* every other value to within half a unit of its last written decimal, and
\* an unset DOP value as unset, never as 0.
C24_RoundTrip ==
    Len(rows) = 2 =>
       LET row == rows[2]
           feat == emitted[1].feat
       IN  /\ f(Some(row.numTracked), 0) = Some(Rat(feat.numTracked, 1))
           /\ WithinHalfUnit(f(Some(row.meanCn0), 3)[1], feat.meanCn0, 3)
           /\ WithinHalfUnit(f(Some(row.fracAbove70), 6)[1], feat.fracAbove70, 6)
           /\ WithinHalfUnit(f(Some(row.elevWeightedCoverage), 6)[1],
                             feat.elevWeightedCoverage, 6)
           /\ WithinHalfUnit(f(Some(row.meanAbsPrRes), 3)[1], feat.meanAbsPrRes, 3)
           /\ WithinHalfUnit(f(Some(row.highElevCn0Std), 3)[1], feat.highElevCn0Std, 3)
           /\ WithinHalfUnit(f(Some(row.dualBandFrac), 6)[1], feat.dualBandFrac, 6)
           /\ WithinHalfUnit(f(Some(row.noSlipFrac), 6)[1], feat.noSlipFrac, 6)
           /\ (feat.pdop = None) = (f(row.pdop, 3) = None)
           /\ (feat.tdop = None) = (f(row.tdop, 3) = None)
           /\ feat.pdop # None => WithinHalfUnit(f(row.pdop, 3)[1], feat.pdop[1], 3)
           /\ feat.tdop # None => WithinHalfUnit(f(row.tdop, 3)[1], feat.tdop[1], 3)
           /\ row.label = feat.label
           /\ row.utcTowMs = feat.utcTowMs

\* a row was written for a record without DOP whose elevation-weighted
\* coverage has more than six decimals
C24_Witness ==
    /\ Len(rows) = 2
    /\ emitted[1].feat.pdop = None
    /\ rows[2].pdop = None
    /\ emitted[1].feat.numTracked = 2
    /\ f(Some(rows[2].elevWeightedCoverage), 6)[1] # emitted[1].feat.elevWeightedCoverage

\* a row was written for a record that carries DOP values
C24_WitnessDop ==
    /\ Len(rows) = 2
    /\ emitted[1].feat.pdop = Some(Rat(150, 100))
    /\ f(rows[2].pdop, 3) = Some(Rat(3, 2))

----------------------------------------------------------------------------
(* The receiver-configuration scripts: a request is written, then a loop reads
   the receiver's messages until the script takes one for its answer *)

MaxReads == 6

progVars == <<accVars, collectVars, lastOp>>

\* identities the receiver may deliver while a script waits: the positive and
\* the negative acknowledgement and its periodic navigation output
Identities == {"ACK-ACK", "ACK-NAK", "NAV-PVT"}

\* Serial(PORT, BAUD, timeout=2) in setPos.py and factoryChat.py: a read that
\* times out yields no message; serial.Serial(port, baud) in tim-tm2.py blocks
HasTimeout(s) == s \in {"setPos", "factoryChat"}

\* (raw_data, parsed_data) = ubr.read(): the identity of parsed_data
Reads(s) == {Some(i) : i \in Identities} \cup (IF HasTimeout(s) THEN {None} ELSE {})

\* a script is started: it writes its first request and enters its loop
StartScript(s, firstPc, request) ==
    /\ script = "none"
    /\ script' = s
    /\ pc' = firstPc
    /\ sent' = <<request>>
    /\ received' = <<>>
    /\ UNCHANGED progVars

StartSetPos == StartScript("setPos", "wait", "CFG-VALSET")
StartFactoryChat == StartScript("factoryChat", "wait", "CFG-VALDEL")
StartTimTm2 == StartScript("tim-tm2", "waitTp", "CFG-MSG TIM-TP")

\* setPos.py: one iteration of the loop; print(parsed_data.identity, ...)
\* raises AttributeError when the read timed out
setPosRead(r) ==
    /\ script = "setPos"
    /\ pc = "wait"
    /\ Len(received) < MaxReads
    /\ received' = Append(received, r)
    /\ pc' = IF r = None THEN "raised"
             ELSE IF r[1] = "ACK-ACK" THEN "done"
             ELSE IF r[1] = "ACK-NAK" THEN "done"
             ELSE "wait"
    /\ UNCHANGED <<script, sent, progVars>>

\* factoryChat.py, factory_reset_valapi: one iteration of the loop; after the
\* loop the defaults are loaded with CFG-VALSET
factoryChatRead(r) ==
    /\ script = "factoryChat"
    /\ pc = "wait"
    /\ Len(received) < MaxReads
    /\ received' = Append(received, r)
    /\ pc' = IF r = None THEN "raised"
             ELSE IF r[1] = "ACK-ACK" THEN "done"
             ELSE "wait"
    /\ sent' = IF r = Some("ACK-ACK") THEN Append(sent, "CFG-VALSET") ELSE sent
    /\ UNCHANGED <<script, progVars>>

\* tim-tm2.py: one iteration of the first or of the second loop; the second
\* request is written when the first loop is left, the time grid when the
\* second is left
timTm2Read(r) ==
    /\ script = "tim-tm2"
    /\ pc \in {"waitTp", "waitTm2"}
    /\ Len(received) < MaxReads
    /\ received' = Append(received, r)
    /\ pc' = IF r = Some("ACK-ACK")
             THEN (IF pc = "waitTp" THEN "waitTm2" ELSE "done")
             ELSE pc
    /\ sent' = IF r = Some("ACK-ACK")
               THEN Append(sent, IF pc = "waitTp" THEN "CFG-MSG TIM-TM2"
                                 ELSE "CFG-VALSET")
               ELSE sent
    /\ UNCHANGED <<script, progVars>>

AckNext ==
    \/ StartSetPos
    \/ StartFactoryChat
    \/ StartTimTm2
    \/ \E r \in Reads("setPos") : setPosRead(r)
    \/ \E r \in Reads("factoryChat") : factoryChatRead(r)
    \/ \E r \in Reads("tim-tm2") : timTm2Read(r)

AckSpec == Init /\ [][AckNext]_vars

Waiting == {"wait", "waitTp", "waitTm2"}

\* C25: every configuration script that waits for the acknowledgement of a
\* request leaves that wait as soon as it reads ACK-ACK or ACK-NAK: no script
\* is still waiting for the same request after it has read an ACK-NAK.
C25_StopsOnEitherAck ==
    [][(/\ pc \in Waiting
        /\ received' # received
        /\ received'[Len(received')] \in {Some("ACK-ACK"), Some("ACK-NAK")})
       => pc' # pc]_vars

\* setPos.py alone does what is claimed: a script other than setPos.py has
\* read ACK-NAK and is in the loop it was in
C25_StillWaitingAfterNak ==
    /\ script \in {"factoryChat", "tim-tm2"}
    /\ pc \in Waiting
    /\ received # <<>>
    /\ received[Len(received)] = Some("ACK-NAK")

\* C26: the output file holds the header row exactly once, immediately before
\* the first data row, followed by exactly one data row per emitted
\* EpochFeatures in the order of emission; as long as no epoch has been closed
\* it holds no row at all, not even the header.
C26_HeaderOnceThenRows ==
    /\ wroteHeader = (rows # <<>>)
    /\ emitted = <<>> => rows = <<>>
    /\ emitted # <<>> =>
          /\ Len(rows) = Len(emitted) + 1
          /\ rows[1] = HeaderRow
          /\ \A i \in 1..Len(emitted) : rows[i + 1] = FeatureRow(emitted[i].feat)

\* two epochs were closed: header, first record, second record
C26_Witness ==
    /\ Len(emitted) = 2
    /\ Len(rows) = 3
    /\ rows[1] = HeaderRow
    /\ rows[2].utcTowMs # rows[3].utcTowMs

\* messages were read and routed and the stream ended without an epoch
\* being closed
C26_WitnessNoEpoch ==
    /\ eof
    /\ nMsgs = MaxMsgs
    /\ satSamples # <<>>
    /\ emitted = <<>>
    /\ rows = <<>>

----------------------------------------------------------------------------
(* cfgChk.py: the configuration is polled key by key; pc holds State *)

PollStates == {"PollTp", "PollGrid", "PollFpos", "PollDMdl", "PollGnss"}
WaitStates == {"WaitTp", "WaitGrid", "WaitFpos", "WaitDMdl", "WaitGnss"}

\* match state (polling states): the request written and the state entered
PollRequest(st) ==
    CASE st = "PollTp" -> "CFG_MSGOUT_UBX_TIM_TP_USB"
      [] st = "PollGrid" -> "CFG_TP_TIMEGRID_TP1"
      [] st = "PollFpos" -> "CFG_TMODE_MODE"
      [] st = "PollDMdl" -> "CFG_NAVSPG_DYNMODEL"
      [] st = "PollGnss" -> "CFG-GNSS"

AfterPoll(st) ==
    CASE st = "PollTp" -> "WaitTp"
      [] st = "PollGrid" -> "WaitGrid"
      [] st = "PollFpos" -> "WaitFpos"
      [] st = "PollDMdl" -> "WaitDMdl"
      [] st = "PollGnss" -> "WaitGnss"
      [] OTHER -> st

\* faulty variant: the time grid is skipped
AfterAckAck_SkipGrid(st) ==
    CASE st = "WaitTp" -> "PollFpos"
      [] st = "WaitGrid" -> "PollFpos"
      [] st = "WaitFpos" -> "PollDMdl"
      [] st = "WaitDMdl" -> "PollGnss"
      [] st = "WaitGnss" -> "done"
      [] OTHER -> st

\* match state (on ACK-ACK): the next polling state, the loop left in WaitGnss
AfterAckAck(st) ==
    CASE st = "WaitTp" -> "PollGrid"
      [] st = "WaitGrid" -> "PollFpos"
      [] st = "WaitFpos" -> "PollDMdl"
      [] st = "WaitDMdl" -> "PollGnss"
      [] st = "WaitGnss" -> "done"
      [] OTHER -> st

\* what the receiver may deliver: the acknowledgements and the poll responses
CfgIdentities == {"ACK-ACK", "ACK-NAK", "CFG-VALGET", "CFG-GNSS"}

\* state = State.PollTp
StartCfgChk ==
    /\ script = "none"
    /\ script' = "cfgChk"
    /\ pc' = "PollTp"
    /\ sent' = <<>>
    /\ received' = <<>>
    /\ UNCHANGED progVars

\* one iteration of the loop: the poll of a polling state is written, a
\* message is read (the port has no timeout), ACK-ACK advances the state, the
\* responses are printed, ACK-NAK leaves the loop
cfgChkLoop(id) ==
    /\ script = "cfgChk"
    /\ pc # "done"
    /\ Len(received) < MaxReads
    /\ sent' = IF pc \in PollStates THEN Append(sent, PollRequest(pc)) ELSE sent
    /\ received' = Append(received, Some(id))
    /\ pc' = IF id = "ACK-ACK" THEN AfterAckAck(AfterPoll(pc))
             ELSE IF id = "ACK-NAK" THEN "done"
             ELSE AfterPoll(pc)
    /\ UNCHANGED <<script, progVars>>

CfgChkNext ==
    \/ StartCfgChk
    \/ \E id \in CfgIdentities : cfgChkLoop(id)

CfgChkSpec == Init /\ [][CfgChkNext]_vars

PollOrder == <<"CFG_MSGOUT_UBX_TIM_TP_USB", "CFG_TP_TIMEGRID_TP1", "CFG_TMODE_MODE",
               "CFG_NAVSPG_DYNMODEL", "CFG-GNSS">>

NumAckAck == Cardinality({i \in 1..Len(received) : received[i] = Some("ACK-ACK")})

C28_ConsecutiveTagsDiffer ==
    /\ [](/\ \A i \in 1..(Len(emitted) - 1) :
                emitted[i].feat.utcTowMs # emitted[i + 1].feat.utcTowMs
          /\ emitted # <<>> =>
                /\ currentItow # None
                /\ currentItow[1] # emitted[Len(emitted)].feat.utcTowMs)
    /\ [][/\ currentItow # None =>
                /\ currentItow' # None
                /\ currentItow' # currentItow =>
                      /\ lastOp'.flushCalled
                      /\ lastOp'.arg = currentItow'
                      /\ Len(emitted') = Len(emitted) + 1
          /\ emitted' # emitted =>
                /\ currentItow # None
                /\ emitted' = Append(emitted, emitted'[Len(emitted')])
                /\ emitted'[Len(emitted')].feat.utcTowMs = currentItow[1]
                /\ lastOp'.arg = currentItow'
                /\ currentItow' # currentItow]_vars

\* two records were emitted, the first tagged by a satellite snapshot's
\* adopted tag, the second by the tag of the clock message that closed the first
C28_Witness ==
    /\ Len(emitted) = 2
    /\ emitted[1].satFrom = Some(emitted[1].feat.utcTowMs)
    /\ emitted[2].feat.utcTowMs # emitted[1].feat.utcTowMs
    /\ currentItow = Some(emitted[1].feat.utcTowMs)

----------------------------------------------------------------------------
(* A snapshot message that declares more entries than it carries: the
   getattr of the first missing entry raises AttributeError inside the
   handler's decoding loop *)

ShortNavSatMsgs ==
    {[identity |-> "NAV-SAT", iTOW |-> t, numSvs |-> Len(s) + 1, svs |-> s] :
        t \in Tags, s \in SeqsUpTo(SatBlock, MaxSv - 1)}

ShortNavSigMsgs ==
    {[identity |-> "NAV-SIG", iTOW |-> t, numSigs |-> Len(s) + 1, sigs |-> s] :
        t \in Tags, s \in SeqsUpTo(SigBlock, MaxSv - 1)}

\* onNavSat up to the entry whose attribute is missing: the tag is adopted,
\* the buffer is cleared and the entries before it are appended
onNavSatRaising(a, msg) ==
    onNavSat(a, [identity |-> "NAV-SAT", iTOW |-> msg.iTOW, svs |-> msg.svs])

\* onNavSig up to the entry whose attribute is missing
onNavSigRaising(a, msg) ==
    onNavSig(a, [identity |-> "NAV-SIG", iTOW |-> msg.iTOW, sigs |-> msg.sigs])

\* one iteration of the collector's loop in which the handler raises: the
\* message carries no gpsTOW, so nothing is flushed; the exception is caught,
\* printed as a collector error, and the loop goes on
collectTaskRaising(msg) ==
    /\ ~eof
    /\ nMsgs < MaxMsgs
    /\ SetAcc(IF msg.identity = "NAV-SAT" THEN onNavSatRaising(Acc, msg)
              ELSE onNavSigRaising(Acc, msg))
    /\ Called("collector error", Some(msg), FALSE, Some(Raised("AttributeError")))
    /\ satFrom' = IF msg.identity = "NAV-SAT"
                  THEN (IF Len(msg.svs) > 0 THEN Some(msg.iTOW) ELSE None)
                  ELSE satFrom
    /\ sigFrom' = IF msg.identity = "NAV-SIG"
                  THEN (IF Len(msg.sigs) > 0 THEN Some(msg.iTOW) ELSE None)
                  ELSE sigFrom
    /\ lastTow' = Some(msg.iTOW)
    /\ nMsgs' = nMsgs + 1
    /\ UNCHANGED <<wroteHeader, rows, emitted, tagChanges, slipFor, lastDop, eof>>

ErrNext ==
    \/ \E msg \in NavSatMsgs : Collect(msg)
    \/ \E msg \in NavSigMsgs : Collect(msg)
    \/ \E msg \in RxmMeasxMsgs : Collect(msg)
    \/ \E msg \in ShortNavSatMsgs : collectTaskRaising(msg)
    \/ \E msg \in ShortNavSigMsgs : collectTaskRaising(msg)

ErrSpec == Init /\ [][ErrNext]_vars

\* C29: when onNavSat or onNavSig raises partway through decoding a snapshot
\* and the collector catches the exception and reads on, the buffer of that
\* handler is exactly what it was before the call.
C29_BufferKeptOnError ==
    [][lastOp'.op = "collector error" =>
          /\ satSamples' = satSamples
          /\ sigSamples' = sigSamples]_vars

----------------------------------------------------------------------------
(* analyzeFiles: the rows of every file are read, each label is scored, the
   scores are printed and written to a sidecar file next to the first input *)

MaxFiles == 3

\* a feature file as csv.DictReader yields it: no row for the file of a
\* session that closed no epoch, or one row
Files == SeqsUpTo(TableRows, 1)

\* the order of sorted() on the labels
LabelRank(l) == IF l = "X" THEN 1 ELSE 2

RECURSIVE SortedLabels(_)
SortedLabels(S) ==
    IF S = {} THEN <<>>
    ELSE LET l == CHOOSE x \in S : \A y \in S : LabelRank(x) <= LabelRank(y)
         IN  <<l>> \o SortedLabels(S \ {l})

RECURSIVE ReadAll(_)
ReadAll(paths) ==
    IF paths = <<>> THEN <<>> ELSE Head(paths) \o ReadAll(Tail(paths))

\* f"{x:.2f}": hundredths, rounded half-even
Fixed2(x) ==
    LET n == Abs(x[1])
        d == x[2]
        scaled == (n % d) * 100
        q == scaled \div d
        rem == scaled % d
        up == (2 * rem > d) \/ (2 * rem = d /\ q % 2 = 1)
        mag == (n \div d) * 100 + q + (IF up THEN 1 ELSE 0)
    IN  IF x[1] < 0 THEN -mag ELSE mag

OutRow(sc) ==
    [label |-> sc.label,
     satelliteAvailability |-> Fixed2(sc.satelliteAvailability),
     signalQuality |-> Fixed2(sc.signalQuality),
     multipathResistance |-> Fixed2(sc.multipathResistance),
     dualBandCoverage |-> Fixed2(sc.dualBandCoverage),
     skyView |-> Fixed2(sc.skyView),
     geometryQuality |-> Fixed2(sc.geometryQuality),
     lockContinuity |-> Fixed2(sc.lockContinuity),
     summaryScore |-> Fixed2(sc.summaryScore)]

\* the sidecar's columns are taken from outRows[0]: IndexError when no label
\* was found
analyzeFiles(paths) ==
    LET table == ReadAll(paths)
        labels == SortedLabels({table[i].label : i \in 1..Len(table)})
        outRows == [k \in 1..Len(labels) |->
                       OutRow(scoreFromAggregates(table, labels[k], ScoreWeights).val[1])]
    IN  IF Len(paths) > 0
        THEN (IF outRows = <<>> THEN Raised("IndexError")
              ELSE Returned([printed |-> outRows, sidecar |-> Some(outRows)]))
        ELSE Returned([printed |-> outRows, sidecar |-> None])

CallAnalyzeFiles(paths) ==
    \E out \in {analyzeFiles(paths)} :
        /\ Called("analyzeFiles", Some(paths), FALSE, Some(out))
        /\ UNCHANGED <<accVars, collectVars>>

\* one run of the analyze command
AnalyzeNext ==
    /\ lastOp = NoOp
    /\ \E paths \in SeqsUpTo(Files, MaxFiles) : CallAnalyzeFiles(paths)

AnalyzeSpec == Init /\ [][AnalyzeNext]_vars

\* C30: for every non-empty list of readable feature files analyzeFiles
\* completes without raising and produces one Scores row per distinct label
\* found in the files, in sorted label order, also when files hold no data
\* row (the file left by a session in which no epoch was closed).
C30_AnalyzeCompletes ==
    (lastOp.op = "analyzeFiles" /\ lastOp.arg[1] # <<>>) =>
       LET table == ReadAll(lastOp.arg[1])
           found == {table[i].label : i \in 1..Len(table)}
           out == lastOp.ret[1]
       IN  /\ out.exc = None
           /\ Len(out.val[1].printed) = Cardinality(found)
           /\ {out.val[1].printed[k].label : k \in 1..Len(out.val[1].printed)} = found
           /\ \A k \in 1..(Len(out.val[1].printed) - 1) :
                 LabelRank(out.val[1].printed[k].label)
                    < LabelRank(out.val[1].printed[k + 1].label)
           /\ out.val[1].sidecar = Some(out.val[1].printed)

\* files with rows are analyzed as claimed: two labels found in three files,
\* given out of order, one of the files without a data row
C30_TwoLabelsScored ==
    /\ lastOp.op = "analyzeFiles"
    /\ Len(lastOp.arg[1]) = 3
    /\ lastOp.arg[1][1] # <<>>
    /\ lastOp.arg[1][1][1].label = "Y"
    /\ lastOp.arg[1][2] = <<>>
    /\ lastOp.arg[1][3] # <<>>
    /\ lastOp.arg[1][3][1].label = "X"
    /\ lastOp.ret[1].exc = None
    /\ Len(lastOp.ret[1].val[1].printed) = 2
    /\ lastOp.ret[1].val[1].printed[1].label = "X"

====
